---- MODULE Spec2Model ----
(***************************************************************************)
(* Model of the ops-cli deploy command (src/src/commands/deploy.rs):       *)
(* target resolution and filtering, the pre-flight on targets[0], the      *)
(* control-plane Deployment record, the per-target pipeline                *)
(* (execute_deployment) and the three ways handle_deploy runs it: direct   *)
(* (one target), rolling (sequential loop) and parallel (JoinSet).         *)
(*                                                                         *)
(* Remote commands, credential fetches and control-plane calls are         *)
(* external: each one succeeds or fails nondeterministically.  No step of  *)
(* the pipeline panics, so the JoinError arm of the join loop              *)
(* (deploy.rs:349-352) has no behaviour in the model.                      *)
(*                                                                         *)
(* The specifications share the variables: Spec (deploy, over command      *)
(* lines and environments), SpecConfig (deploy, over ops.toml contents),   *)
(* SpecSigint (deploy with an interrupt at any point), SpecPool (the pool  *)
(* status / drain / undrain commands of src/src/commands/pool.rs against   *)
(* the control plane's node group), SpecGroup (pool strategy and           *)
(* node-group create next to drain / undrain), SpecTunnel and              *)
(* SpecTunnelLive (src/src/commands/tunnel.rs), SpecBuild (the image       *)
(* builds of src/src/commands/build.rs) and SpecParse (parse_target_v2 of  *)
(* src/src/utils.rs).                                                      *)
(***************************************************************************)
EXTENDS Integers, Sequences, FiniteSets, TLC

\* ----- bounds -----------------------------------------------------------
MaxTargets == 2       \* most nodes the control plane returns as bound
MaxChecks == 2        \* most [[healthchecks]] entries in ops.toml
MaxMembers == 2       \* most nodes bound to the app of the pool commands
MaxServices == 3      \* most entries of [build.image].services
MaxJobs == 2          \* largest --jobs of `ops build`
MaxLen == 4           \* longest target string given to parse_target_v2

\* ----- program constants ------------------------------------------------
HealthPolls == 10     \* "for i in 1 2 3 4 5 6 7 8 9 10" in run_health_checks

TIdx == 1..MaxTargets

\* DeployTarget.region of the node with the given id (Option<String>;
\* "?" stands for None, which no --region value equals).
RegionOf(id) ==
  CASE id % 3 = 1 -> "us-east"
    [] id % 3 = 2 -> "eu-west"
    [] OTHER -> "?"

\* The command line and the environment of one `ops deploy` run.
NodeFilters == {0, 2, MaxTargets + 1}              \* 0 = no --node
RegionFilters == {"", "us-east", "ap-south"}       \* "" = no --region

\* deploy.source of ops.toml; "bogus" stands for any other string.
Sources == {"git", "push", "image", "bogus"}

\* The runs with a well-formed git-source ops.toml that declares routes;
\* the command line and the environment vary.
Inputs ==
  [ nbound : 0..MaxTargets,        \* nodes bound to the app (ids 1..nbound)
    token : BOOLEAN,               \* config::load_config yields a token
    node_filter : NodeFilters,
    region_filter : RegionFilters,
    rolling : BOOLEAN,
    restart_only : BOOLEAN,
    interactive : BOOLEAN,
    nchecks : 0..MaxChecks,        \* config.healthchecks.len()
    parse_ok : {TRUE},             \* ops.toml reads and parses
    source : {"git"},              \* config.deploy.source
    git_section : {TRUE},          \* config.deploy.git.is_some()
    routes : {TRUE},               \* a [[routes]] entry or an app with a port
    pinned : {FALSE} ]             \* config.target.is_some()

\* The runs of a logged-in, non-interactive `ops deploy` without filters;
\* ops.toml varies.  Fields that the program cannot tell apart are kept at
\* one value: the git section matters for source "git" only, and nothing
\* of a file that does not parse.  deploy.rs never reads config.target, so
\* a pinned target is combined with one source only.
ConfigInputs ==
  { i \in [ nbound : 0..MaxTargets,
            token : {TRUE},
            node_filter : {0},
            region_filter : {""},
            rolling : BOOLEAN,
            restart_only : BOOLEAN,
            interactive : {FALSE},
            nchecks : {0, 1},
            parse_ok : BOOLEAN,
            source : Sources,
            git_section : BOOLEAN,
            routes : BOOLEAN,
            pinned : BOOLEAN ] :
      /\ i.source # "git" => i.git_section
      /\ i.pinned => i.source = "git" /\ i.git_section /\ i.routes
      /\ ~i.parse_ok => i.source = "git" /\ i.git_section /\ i.routes
                           /\ ~i.pinned /\ ~i.rolling /\ ~i.restart_only
                           /\ i.nchecks = 0 }

VARIABLES
  inp,            \* the run's inputs (never change)
  pc,             \* position of handle_deploy / main
  mode,           \* branch taken: "none", "single", "rolling", "parallel"
  targets,        \* Vec<DeployTarget>, as the sequence of node ids
  result,         \* handle_deploy's Result: "none", "Ok" or the error
  exit_code,      \* process exit status; -1 while running
  connects,       \* SshSession::connect calls made so far
  cur,            \* rolling loop: index of the target being deployed
  joined,         \* parallel: tasks taken by join_next so far
  tpc,            \* per target: position of its iteration / task
  steps,          \* per target: pipeline step numbers run, in order
  tres,           \* per target: "none", "Ok" or "Err" (its recorded outcome)
  failAt,         \* per target: step number that failed (0 = none)
  connFailed,     \* per target: a session for it failed to open
  hc_done,        \* per target: health checks attempted so far
  hc_failed,      \* per target: some health check reported FAILED
  polls_max,      \* most curl polls any single health check has made
  success_count,  \* coordinator's success counter
  failed,         \* coordinator's Vec<String> of failed targets
  deployment_id,  \* "None" | "Some": the Deployment record created
  record,         \* status of the Deployment record at the control plane
  updates,        \* statuses sent by api::update_deployment, in order
  cp_queries,     \* target queries resolve_targets sent to the control plane
  binds,          \* api::bind_node_by_name calls made so far
  sess,           \* node each SshSession was opened for (0 = not open);
                  \* index 0: the pre-flight's, index t: iteration/task t's
  ran_on,         \* per target: indices of the sessions its commands ran on
  checked,        \* per target: check_containers was applied to it
  cmd4,           \* per target: the command build_and_start issued
  route_execs,    \* per target: upload_caddy_routes issued a command
  pool,           \* control plane: the app's targets, [node, status] each
  prior,          \* control plane: per node, its status when it was drained
  group,          \* control plane: the app has a node group (pool mode)
  pool_out,       \* what the last pool command printed and returned
  pool_log,       \* the last two drain / undrain commands that ended Ok
  lb_strategy,    \* control plane: the group's lb_strategy ("" = no group)
  pool_calls,     \* control-plane calls the last pool / node-group
                  \* command made, in order
  tn_pc,          \* position of handle_tunnel
  tn_result,      \* handle_tunnel's Result: "none", "Ok" or the error
  tunnel_id,      \* id of the registered tunnel (0 = not registered)
  tn_record,      \* control plane: the tunnel record (and its DNS) exists
  conf,           \* node: the nginx conf of the tunnel is in place
  temp_key_file,  \* the NamedTempFile with the CI key exists
  ssh_child,      \* the `ssh -N -R` process: "none", "running", "exited"
  child_lock,     \* holder of the Mutex around ssh_child
  wait_task,      \* the spawn_blocking task that waits on ssh_child
  ctrl_c,         \* the interrupt: "none", "pending" (signal delivered)
  tn_calls,       \* teardown calls handle_tunnel has made
  protocol,       \* "http" / "https" of the printed tunnel URL
  b_inp,          \* build_and_push_images' arguments (never change)
  b_pc,           \* position of build_and_push_images
  b_i,            \* index of the service / first service of the batch at hand
  build,          \* per service: "idle", "running", "ok", "failed"
  marker,         \* per service: content of /tmp/ops_build_<svc>.exit
  marker_read,    \* services whose exit marker the exit check has read
  pushed,         \* services whose image was pushed
  issued,         \* the build commands issued, each as its set of services
  b_result,       \* build_and_push_images' Result
  target_str,     \* parse_target_v2's argument, as its characters
  parsed          \* parse_target_v2's Result (kind "none": not called yet)

vars == << inp, pc, mode, targets, result, exit_code, connects, cur, joined,
           tpc,
           steps, tres, failAt, connFailed, hc_done, hc_failed, polls_max,
           success_count,
           failed, deployment_id, record, updates,
           cp_queries, binds, sess, ran_on, checked, cmd4, route_execs,
           pool, prior, group, pool_out, pool_log, lb_strategy, pool_calls,
           tn_pc, tn_result, tunnel_id, tn_record, conf, temp_key_file,
           ssh_child, child_lock, wait_task, ctrl_c, tn_calls, protocol,
           b_inp, b_pc, b_i, build, marker, marker_read, pushed, issued,
           b_result, target_str, parsed >>

poolVars == << pool, prior, group, pool_out, pool_log, lb_strategy,
               pool_calls >>
deployVars == << inp, pc, mode, targets, result, exit_code, connects,
                 cur, joined, tpc, steps, tres, failAt, connFailed,
                 hc_done, hc_failed, polls_max, success_count, failed,
                 deployment_id, record, updates, cp_queries, binds,
                 sess, ran_on, checked, cmd4, route_execs >>

tunnelVars == << tn_pc, tn_result, tunnel_id, tn_record, conf,
                 temp_key_file, ssh_child, child_lock, wait_task, ctrl_c,
                 tn_calls, protocol >>
buildVars == << b_inp, b_pc, b_i, build, marker, marker_read, pushed,
                issued, b_result >>
parseVars == << target_str, parsed >>
toolVars == << tunnelVars, buildVars, parseVars >>

coordVars == << cur, joined, success_count, failed >>
targetVars == << tpc, steps, tres, failAt, connFailed, hc_done, hc_failed,
                polls_max >>
recordVars == << deployment_id, record, updates >>
resolveVars == << cp_queries, binds >>
sessionVars == << sess, ran_on >>
stepVars == << checked, cmd4, route_execs >>

N == Len(targets)

\* Everything but the inputs at the start of handle_deploy.
Start ==
  /\ pc = "load"
  /\ mode = "none"
  /\ targets = << >>
  /\ result = "none"
  /\ exit_code = -1
  /\ connects = 0
  /\ cur = 1
  /\ joined = {}
  /\ tpc = [t \in TIdx |-> "idle"]
  /\ steps = [t \in TIdx |-> << >>]
  /\ tres = [t \in TIdx |-> "none"]
  /\ failAt = [t \in TIdx |-> 0]
  /\ connFailed = [t \in TIdx |-> FALSE]
  /\ hc_done = [t \in TIdx |-> 0]
  /\ hc_failed = [t \in TIdx |-> FALSE]
  /\ polls_max = 0
  /\ success_count = 0
  /\ failed = << >>
  /\ deployment_id = "None"
  /\ record = "none"
  /\ updates = << >>
  /\ cp_queries = 0
  /\ binds = 0
  /\ sess = [i \in 0..MaxTargets |-> 0]
  /\ ran_on = [t \in TIdx |-> {}]
  /\ checked = [t \in TIdx |-> FALSE]
  /\ cmd4 = [t \in TIdx |-> "none"]
  /\ route_execs = [t \in TIdx |-> FALSE]

\* What a pool command leaves behind: the command, its --node, its Result,
\* and for `pool status` the table rows and the "h/t nodes healthy" line
\* (ratio: the line was printed).
Output(cmd, node, res) ==
  [cmd |-> cmd, node |-> node, res |-> res, rows |-> << >>,
   ratio |-> FALSE, healthy |-> 0, total |-> 0]

\* No pool command is run during a deploy.
NoPool ==
  /\ pool = << >>
  /\ prior = [n \in 1..MaxMembers |-> ""]
  /\ group = FALSE
  /\ pool_out = Output("none", 0, "none")
  /\ pool_log = << >>
  /\ lb_strategy = ""
  /\ pool_calls = << >>

\* handle_tunnel before its first statement.
TunnelStart ==
  /\ tn_pc = "parse"
  /\ tn_result = "none"
  /\ tunnel_id = 0
  /\ tn_record = FALSE
  /\ conf = FALSE
  /\ temp_key_file = FALSE
  /\ ssh_child = "none"
  /\ child_lock = "free"
  /\ wait_task = "none"
  /\ ctrl_c = "none"
  /\ tn_calls = {}
  /\ protocol = "none"

SIdx == 1..MaxServices

\* build_and_push_images before its first statement.
BuildStart ==
  /\ b_pc = "login"
  /\ b_i = 1
  /\ build = [s \in SIdx |-> "idle"]
  /\ marker = [s \in SIdx |-> ""]
  /\ marker_read = {}
  /\ pushed = {}
  /\ issued = << >>
  /\ b_result = "none"

\* No build is run by another command.
NoBuild ==
  /\ b_inp = [nsvc |-> 0, jobs |-> 1, no_push |-> FALSE]
  /\ BuildStart

\* Option<String>, as a record.
None == [some |-> FALSE, val |-> << >>]
Some(v) == [some |-> TRUE, val |-> v]

\* Result<TargetType>: the variant and its fields; the fields that a
\* variant does not have are kept at 0 / the empty string.
NotParsed ==
  [kind |-> "none", id |-> 0, app |-> << >>, project |-> << >>,
   path |-> None]

\* parse_target_v2 is not called with a target of this model.
NoParse ==
  /\ target_str = << >>
  /\ parsed = NotParsed

\* The other commands, not run.
NoTools ==
  /\ TunnelStart
  /\ NoBuild
  /\ NoParse

Init ==
  /\ inp \in Inputs
  /\ Start
  /\ NoPool
  /\ NoTools

InitConfig ==
  /\ inp \in ConfigInputs
  /\ Start
  /\ NoPool
  /\ NoTools

\* handle_deploy returns Err(e) (a `?` or an explicit return).
Fail(e) ==
  /\ result' = e
  /\ pc' = "returned"

\* ----- configuration (deploy.rs:183-185) --------------------------------

\* let config = load_ops_toml(&file)?;  Only reading and parsing the file
\* can fail here: deploy.source is a free String, deploy.git an Option.
LoadOpsToml ==
  /\ pc = "load"
  /\ IF inp.parse_ok THEN pc' = "resolve" /\ UNCHANGED result
     ELSE Fail("Failed to parse ops.toml")
  /\ UNCHANGED << inp, poolVars, toolVars, mode, targets, exit_code, connects >>
  /\ UNCHANGED << coordVars, targetVars, recordVars >>
  /\ UNCHANGED << resolveVars, sessionVars, stepVars >>

\* ----- target resolution (deploy.rs:58-208) -----------------------------

\* resolve_targets: the bound targets, in the control plane's order.
BoundTargets(n) == [i \in 1..n |-> i]

\* Variant: an empty list is handed back as Ok.
NoNodesBoundNever(n) == FALSE

\* if targets.is_empty() { return Err(anyhow!("No nodes bound to ...")) }
NoNodesBound(n) == n = 0

\* resolve_targets and the match on its result in handle_deploy.
ResolveTargets ==
  /\ pc = "resolve"
  /\ \E apiOk \in BOOLEAN :
       IF ~inp.token THEN Fail("Please run ops login first.")
       ELSE IF ~apiOk THEN Fail("Failed to get deploy targets")
       ELSE IF NoNodesBound(inp.nbound)
         THEN pc' = "auto_allocate" /\ UNCHANGED result   \* "No nodes bound"
         ELSE pc' = "filter" /\ UNCHANGED result
  /\ targets' = IF pc' = "filter" THEN BoundTargets(inp.nbound) ELSE targets
  /\ cp_queries' = IF inp.token THEN cp_queries + 1 ELSE cp_queries
  /\ UNCHANGED << inp, poolVars, toolVars, mode, exit_code, connects, binds >>
  /\ UNCHANGED << coordVars, targetVars, recordVars >>
  /\ UNCHANGED << sessionVars, stepVars >>

\* Variant: a non-interactive run goes on to pick the default node.
NonInteractiveBailNever(interactive) == FALSE

\* if !interactive { bail!("No nodes bound. ...") }  (deploy.rs:119-121)
NonInteractiveBail(interactive) == ~interactive

\* auto_allocate_node: pick an available node and bind it as primary.
AutoAllocateNode ==
  /\ pc = "auto_allocate"
  /\ \E listOk \in BOOLEAN, avail \in 0..1, bindOk \in BOOLEAN :
       IF NonInteractiveBail(inp.interactive)
         THEN Fail("No nodes bound.") /\ UNCHANGED << targets, binds >>
       ELSE IF ~listOk
         THEN Fail("list_nodes failed") /\ UNCHANGED << targets, binds >>
       ELSE IF avail = 0
         THEN Fail("No nodes available.") /\ UNCHANGED << targets, binds >>
       ELSE /\ binds' = binds + 1
            /\ IF ~bindOk THEN Fail("bind failed") /\ UNCHANGED targets
               ELSE /\ targets' = << 1 >>
                    /\ pc' = "filter"
                    /\ UNCHANGED result
  /\ UNCHANGED << inp, poolVars, toolVars,
                  mode, exit_code, connects, cp_queries >>
  /\ UNCHANGED << coordVars, targetVars, recordVars >>
  /\ UNCHANGED << sessionVars, stepVars >>

\* targets.retain(|t| t.node_id == nid)
RetainNode(ts, nid) == SelectSeq(ts, LAMBDA t : t = nid)

\* targets.retain(|t| t.region.as_deref() == Some(region))
RetainRegion(ts, region) == SelectSeq(ts, LAMBDA t : RegionOf(t) = region)

\* Variant: the filters without their is_empty() checks.
FilterNoCheck(ts, nf, rf) ==
  LET a == IF nf # 0 THEN RetainNode(ts, nf) ELSE ts
      b == IF rf # "" THEN RetainRegion(a, rf) ELSE a
  IN  [targets |-> b, err |-> ""]

\* The two filters of handle_deploy (deploy.rs:196-208): the list left and
\* the error returned, "" when none.
FilterTargets(ts, nf, rf) ==
  LET a == IF nf # 0 THEN RetainNode(ts, nf) ELSE ts
      b == IF rf # "" THEN RetainRegion(a, rf) ELSE a
  IN  IF nf # 0 /\ a = << >>
        THEN [targets |-> a, err |-> "Node is not bound to this app"]
      ELSE IF rf # "" /\ b = << >>
        THEN [targets |-> b, err |-> "No nodes in region bound to this app"]
      ELSE [targets |-> b, err |-> ""]

ApplyFilters ==
  /\ pc = "filter"
  /\ LET f == FilterTargets(targets, inp.node_filter, inp.region_filter)
     IN  /\ targets' = f.targets
         /\ IF f.err # "" THEN Fail(f.err)
            ELSE pc' = "connect" /\ UNCHANGED result
  /\ UNCHANGED << inp, poolVars, toolVars, mode, exit_code, connects >>
  /\ UNCHANGED << coordVars, targetVars, recordVars >>
  /\ UNCHANGED << resolveVars, sessionVars, stepVars >>

\* ----- pre-flight on targets[0] (deploy.rs:234-241) ---------------------

LogStep(t, k) == [steps EXCEPT ![t] = Append(@, k)]

\* A command for target t goes through the session at index i.
RunOn(t, i) == [ran_on EXCEPT ![t] = @ \cup {i}]

\* Variant: a failed pre-flight call is reported and the deploy goes on.
PreflightFailGoesOn(e) ==
  /\ result' = e
  /\ pc' = "sync_record"

\* The `?` of the pre-flight calls (deploy.rs:235-241): handle_deploy
\* returns the error.
PreflightFail(e) ==
  /\ result' = e
  /\ pc' = "returned"

\* let session = SshSession::connect(&targets[0].node_id.to_string()).await?;
PreConnect ==
  /\ pc = "connect"
  /\ connects' = connects + 1
  /\ \E ok \in BOOLEAN :
       IF ok THEN /\ pc' = "mkdir"
                  /\ sess' = [sess EXCEPT ![0] = targets[1]]
                  /\ UNCHANGED << result, connFailed >>
       ELSE /\ PreflightFail("connect failed")
            /\ connFailed' = [connFailed EXCEPT ![1] = TRUE]
            /\ UNCHANGED sess
  /\ UNCHANGED << inp, poolVars, toolVars, mode, targets, exit_code >>
  /\ UNCHANGED << tpc, steps, tres, failAt, hc_done, hc_failed, polls_max >>
  /\ UNCHANGED << coordVars, recordVars >>
  /\ UNCHANGED << resolveVars, ran_on, stepVars >>

\* session.exec(&format!("mkdir -p {}", deploy_path), None)?;
PreMkdir ==
  /\ pc = "mkdir"
  /\ steps' = LogStep(1, 1)
  /\ ran_on' = RunOn(1, 0)
  /\ \E ok \in BOOLEAN :
       IF ok THEN /\ pc' = IF inp.restart_only THEN "sync_record" ELSE "check"
                  /\ UNCHANGED << result, failAt >>
       ELSE /\ PreflightFail("Remote command failed")
            /\ failAt' = [failAt EXCEPT ![1] = 1]
  /\ UNCHANGED << inp, poolVars, toolVars, mode, targets, exit_code, connects >>
  /\ UNCHANGED << tpc, tres, connFailed, hc_done, hc_failed, polls_max >>
  /\ UNCHANGED << coordVars, recordVars >>
  /\ UNCHANGED << resolveVars, sess, stepVars >>

\* check_containers' decision (deploy.rs:802-845): "continue", "clean" or
\* "abort".  existing: docker ps lists a container; choice: prompt::select.
ContainerDecision(existing, force, choice) ==
  IF ~existing THEN "continue"
  ELSE IF force THEN "clean"
  ELSE CASE choice = 1 -> "clean"
         [] choice = 2 -> "abort"
         [] OTHER -> "continue"

\* prompt::select("Select action", options, 0, interactive)
Select(choice, default_index, interactive) ==
  IF ~interactive THEN default_index ELSE choice

\* if !restart_only { check_containers(...)?; }  The --force flag is read
\* here and nowhere else, so it is drawn where it is used.
CheckContainers ==
  /\ pc = "check"
  /\ steps' = LogStep(1, 1)
  /\ ran_on' = RunOn(1, 0)
  /\ checked' = [checked EXCEPT ![1] = TRUE]
  /\ \E force \in BOOLEAN, existing \in BOOLEAN, choice \in 0..2,
        downOk \in BOOLEAN :
       LET d == ContainerDecision(existing, force,
                                  Select(choice, 0, inp.interactive))
       IN  IF d = "abort" \/ (d = "clean" /\ ~downOk)
             THEN /\ PreflightFail(IF d = "abort"
                                      THEN "Deployment aborted by user"
                                      ELSE "Remote command failed")
                  /\ failAt' = [failAt EXCEPT ![1] = 1]
             ELSE /\ pc' = "sync_record"
                  /\ UNCHANGED << result, failAt >>
  /\ UNCHANGED << inp, poolVars, toolVars, mode, targets, exit_code, connects >>
  /\ UNCHANGED << tpc, tres, connFailed, hc_done, hc_failed, polls_max >>
  /\ UNCHANGED << coordVars, recordVars >>
  /\ UNCHANGED << resolveVars, sess, cmd4, route_execs >>

\* ----- control-plane Deployment record (deploy.rs:386-447) --------------

\* update_deployment_status: the status string sent for a Result.
UpdateStatus(res) == IF res = "Ok" THEN "success" ELSE "failed"

\* print_deploy_summary's `_status` (deploy.rs:378); computed, never sent.
AggregateStatus(sc, fl) ==
  IF fl = << >> THEN "success" ELSE IF sc > 0 THEN "partial" ELSE "failed"

\* print_deploy_summary's `result` (deploy.rs:379-381), the value it hands
\* to update_deployment_status.
SummaryResult(fl) == IF fl = << >> THEN "Ok" ELSE "Err"

\* Variant: the status is sent a second time.
UpdateDeploymentStatusTwice(res, apiOk) ==
  IF deployment_id = "Some" /\ inp.token
    THEN /\ updates' = updates \o << UpdateStatus(res), UpdateStatus(res) >>
         /\ record' = IF apiOk THEN UpdateStatus(res) ELSE record
         /\ UNCHANGED deployment_id
    ELSE UNCHANGED recordVars

\* update_deployment_status(did, &res): one PATCH when a record exists and
\* the token loads; the control plane stores the status when the call
\* succeeds, a failure is only warned about.
UpdateDeploymentStatus(res, apiOk) ==
  IF deployment_id = "Some" /\ inp.token
    THEN /\ updates' = Append(updates, UpdateStatus(res))
         /\ record' = IF apiOk THEN UpdateStatus(res) ELSE record
         /\ UNCHANGED deployment_id
    ELSE UNCHANGED recordVars

\* The branch handle_deploy takes at deploy.rs:247-301.
Mode(n, rolling) ==
  IF n = 1 THEN "single" ELSE IF rolling THEN "rolling" ELSE "spawn"

\* The name of the branch that starts at position b.
ModeName(b) == IF b = "spawn" THEN "parallel" ELSE b

\* Variant: a tracking call that fails ends the deploy.
AfterSyncRecordFatal(n, rolling, tracked) ==
  IF tracked THEN Mode(n, rolling) ELSE "returned"

\* sync_app_record returns a pair of Options and no Result (deploy.rs:387,
\* 244): handle_deploy goes on to its branch whether or not the record was
\* created (tracked).
AfterSyncRecord(n, rolling, tracked) == Mode(n, rolling)

\* sync_app_record, then the choice of branch.  In the single branch the
\* pipeline runs on the pre-flight session; in the rolling branch every
\* target waits for its iteration, which starts by connecting.
SyncAppRecord ==
  /\ pc = "sync_record"
  /\ \E syncOk \in BOOLEAN, createOk \in BOOLEAN :
       LET tracked == inp.token /\ syncOk /\ createOk
       IN  /\ IF tracked
                THEN /\ deployment_id' = "Some"
                     /\ record' = "pending"
                     /\ UNCHANGED updates
                ELSE UNCHANGED recordVars
           /\ pc' = AfterSyncRecord(N, inp.rolling, tracked)
  /\ mode' = ModeName(Mode(N, inp.rolling))
  /\ tpc' = CASE pc' = "single" -> [tpc EXCEPT ![1] = "env"]
              [] pc' = "rolling" ->
                   [t \in TIdx |-> IF t <= N THEN "connect" ELSE tpc[t]]
              [] OTHER -> tpc
  /\ UNCHANGED << inp, poolVars, toolVars,
                  targets, result, exit_code, connects >>
  /\ UNCHANGED << steps, tres, failAt, connFailed >>
  /\ UNCHANGED << hc_done, hc_failed, polls_max >>
  /\ UNCHANGED coordVars
  /\ UNCHANGED << resolveVars, sessionVars, stepVars >>

\* ----- the per-target pipeline ------------------------------------------

\* Variant: iterations are not held back by the loop index.
RollingTurnAny(t, c) == TRUE

\* The rolling `for` loop (deploy.rs:264) works on the target at its index.
RollingTurn(t, c) == t = c

\* Target t's iteration or task may take a step.
Active(t) ==
  /\ t \in 1..N
  /\ \/ pc = "single" /\ t = 1
     \/ pc = "rolling" /\ RollingTurn(t, cur)
     \/ pc = "join"

\* Variant: build & start is called before the code sync.
StepAfterSwapped(s, restart_only) ==
  CASE s = "mkdir" -> "env"
    [] s = "env" -> "dirs"
    [] s = "dirs" -> "build"
    [] s = "build" -> IF restart_only THEN "health" ELSE "code"
    [] s = "code" -> "routes"
    [] s = "routes" -> "health"
    [] OTHER -> "done"

\* The order of execute_deployment's calls (deploy.rs:458-478): the
\* position that follows position s.
StepAfter(s, restart_only) ==
  CASE s = "mkdir" -> "env"
    [] s = "env" -> "dirs"
    [] s = "dirs" -> IF restart_only THEN "build" ELSE "code"
    [] s = "code" -> "build"
    [] s = "build" -> IF restart_only THEN "health" ELSE "routes"
    [] s = "routes" -> "health"
    [] OTHER -> "done"

\* The `?` after a step: an error ends the pipeline with that error.
AfterStep(s, ok, restart_only) ==
  IF ok THEN StepAfter(s, restart_only) ELSE "done"

\* Variant: every pipeline is handed the pre-flight session.
SessionUsedShared(m, t) == 0

\* The session execute_deployment is called with for target t: the
\* pre-flight's in the single branch (deploy.rs:249), the one the iteration
\* or task opened itself otherwise (deploy.rs:265, 278 and 314, 320).
SessionUsed(m, t) == IF m = "single" THEN 0 ELSE t

\* One fallible step at position s, which is step number k of the pipeline;
\* oks: the outcomes it can have.
RunStep(t, s, k, oks) ==
  /\ Active(t)
  /\ tpc[t] = s
  /\ steps' = LogStep(t, k)
  /\ ran_on' = RunOn(t, SessionUsed(mode, t))
  /\ \E ok \in oks :
       /\ tpc' = [tpc EXCEPT ![t] = AfterStep(s, ok, inp.restart_only)]
       /\ IF ok THEN UNCHANGED << tres, failAt >>
          ELSE /\ tres' = [tres EXCEPT ![t] = "Err"]
               /\ failAt' = [failAt EXCEPT ![t] = k]
  /\ UNCHANGED << inp, poolVars, toolVars, mode, pc, targets >>
  /\ UNCHANGED << result, exit_code, connects >>
  /\ UNCHANGED << connFailed, hc_done, hc_failed, polls_max >>
  /\ UNCHANGED << coordVars, recordVars >>
  /\ UNCHANGED << resolveVars, sess, checked >>

\* SshSession::connect(&t.node_id.to_string()) in the loop / in the task.
TConnect(t) ==
  /\ Active(t)
  /\ tpc[t] = "connect"
  /\ connects' = connects + 1
  /\ \E ok \in BOOLEAN :
       IF ok THEN /\ tpc' = [tpc EXCEPT ![t] = "mkdir"]
                  /\ sess' = [sess EXCEPT ![t] = targets[t]]
                  /\ UNCHANGED << tres, connFailed >>
       ELSE /\ tpc' = [tpc EXCEPT ![t] = "done"]
            /\ tres' = [tres EXCEPT ![t] = "Err"]
            /\ connFailed' = [connFailed EXCEPT ![t] = TRUE]
            /\ UNCHANGED sess
  /\ UNCHANGED << inp, poolVars, toolVars, mode,
                  pc, targets, result, exit_code >>
  /\ UNCHANGED << steps, failAt, hc_done, hc_failed, polls_max >>
  /\ UNCHANGED << coordVars, recordVars >>
  /\ UNCHANGED << resolveVars, ran_on, stepVars >>

\* session.exec("mkdir -p <deploy_path>") in the loop / in the task.
TMkdir(t) ==
  /\ mode \in {"rolling", "parallel"}
  /\ RunStep(t, "mkdir", 1, BOOLEAN)
  /\ UNCHANGED << cmd4, route_execs >>

\* sync_env_files(config, session)?
SyncEnvFiles(t) ==
  /\ tpc[t] = "env"
  /\ RunStep(t, "env", 2, BOOLEAN)
  /\ UNCHANGED << cmd4, route_execs >>

\* sync_directories(config, session).await?
SyncDirectories(t) ==
  /\ tpc[t] = "dirs"
  /\ RunStep(t, "dirs", 2, BOOLEAN)
  /\ UNCHANGED << cmd4, route_execs >>

\* sync_code's errors that come from ops.toml alone: a git source without
\* [deploy.git] (deploy.rs:535-539), a source that is none of the three
\* known ones (deploy.rs:595).
SourceError(source, git_section) ==
  \/ source = "git" /\ ~git_section
  \/ source \notin {"git", "push", "image"}

\* if !restart_only { sync_code(...)?; }
SyncCode(t) ==
  /\ ~inp.restart_only
  /\ RunStep(t, "code", 3,
             IF SourceError(inp.source, inp.git_section) THEN {FALSE}
             ELSE BOOLEAN)
  /\ UNCHANGED << cmd4, route_execs >>

\* Variant: restart_only is not looked at.
BuildCommandNoRestart(restart_only, source) ==
  IF source = "image" THEN "up" ELSE "build_up"

\* The docker compose command build_and_start issues (deploy.rs:868-886).
BuildCommand(restart_only, source) ==
  IF restart_only THEN "restart"
  ELSE IF source = "image" THEN "up"
  ELSE "build_up"

\* build_and_start(...)?
BuildAndStart(t) ==
  /\ tpc[t] = "build"
  /\ RunStep(t, "build", 4, BOOLEAN)
  /\ cmd4' = [cmd4 EXCEPT ![t] = BuildCommand(inp.restart_only, inp.source)]
  /\ UNCHANGED route_execs

\* upload_caddy_routes issues a remote command: its first statement is
\* session.exec("mkdir -p /etc/caddy/routes.d", None)?, before config.routes
\* and config.apps are looked at (deploy.rs:654).
RoutingExecs(routes) == TRUE

\* if !restart_only { upload_caddy_routes(...)?; }  Each of its commands,
\* the mkdir included, can fail the step.
UploadCaddyRoutes(t) ==
  /\ ~inp.restart_only
  /\ RunStep(t, "routes", 5, BOOLEAN)
  /\ route_execs' = [route_execs EXCEPT ![t] = RoutingExecs(inp.routes)]
  /\ UNCHANGED cmd4

\* ----- health checks (deploy.rs:892-915) --------------------------------

\* First curl attempt that succeeds, as the service decides; 0 = never.
PollInputs == {0, 1, HealthPolls, HealthPolls + 1}

\* The remote loop "for i in 1 .. 10; do curl -sf URL && echo OK && exit 0;
\* sleep 2; done; echo FAIL; exit 1", from attempt i on.
RECURSIVE PollLoop(_, _)
PollLoop(i, okAt) ==
  IF i > HealthPolls THEN [out |-> "FAIL", polls |-> i - 1]
  ELSE IF okAt = i THEN [out |-> "OK", polls |-> i]
  ELSE PollLoop(i + 1, okAt)

\* The match on exec_output's result: OK only for output "OK".
CheckOutcome(sshOk, out) == IF sshOk /\ out = "OK" THEN "OK" ELSE "FAILED"

\* Variant: a failed check fails run_health_checks.
HealthResultStrict(anyFailed) == IF anyFailed THEN "Err" ELSE "Ok"

\* What run_health_checks returns; anyFailed: some check reported FAILED.
HealthResult(anyFailed) == "Ok"

Max(a, b) == IF a > b THEN a ELSE b

\* One iteration of `for hc in &config.healthchecks`.
HealthCheck(t) ==
  /\ Active(t)
  /\ tpc[t] = "health"
  /\ hc_done[t] < inp.nchecks
  /\ steps' = LogStep(t, 6)
  /\ ran_on' = RunOn(t, SessionUsed(mode, t))
  /\ \E sshOk \in BOOLEAN, okAt \in PollInputs :
       LET r == PollLoop(1, okAt)
       IN  /\ hc_done' = [hc_done EXCEPT ![t] = @ + 1]
           /\ hc_failed' = [hc_failed EXCEPT ![t] =
                               @ \/ CheckOutcome(sshOk, r.out) = "FAILED"]
           /\ polls_max' = IF sshOk THEN Max(polls_max, r.polls) ELSE polls_max
  /\ UNCHANGED << inp, poolVars, toolVars, mode, pc, targets >>
  /\ UNCHANGED << result, exit_code, connects >>
  /\ UNCHANGED << tpc, tres, failAt, connFailed >>
  /\ UNCHANGED << coordVars, recordVars >>
  /\ UNCHANGED << resolveVars, sess, stepVars >>

\* run_health_checks returns (at once when no check is declared) and
\* execute_deployment returns with it.
PipelineReturn(t) ==
  /\ Active(t)
  /\ tpc[t] = "health"
  /\ hc_done[t] = inp.nchecks
  /\ tpc' = [tpc EXCEPT ![t] = "done"]
  /\ tres' = [tres EXCEPT ![t] = HealthResult(hc_failed[t])]
  /\ UNCHANGED << inp, poolVars, toolVars, mode, pc, targets >>
  /\ UNCHANGED << result, exit_code, connects >>
  /\ UNCHANGED << steps, failAt, connFailed, hc_done, hc_failed, polls_max >>
  /\ UNCHANGED << coordVars, recordVars >>
  /\ UNCHANGED << resolveVars, sessionVars, stepVars >>

\* ----- the coordinator (deploy.rs:247-363) ------------------------------

\* The match on one target's outcome (deploy.rs:285-294 and 338-347):
\* the counter and the failed list afterwards.
RecordOutcome(sc, fl, dom, res) ==
  IF res = "Ok" THEN [success_count |-> sc + 1, failed |-> fl]
  ELSE [success_count |-> sc, failed |-> Append(fl, dom)]

\* Variant: the failed list is not looked at after the summary.
DeployResultIgnoreFailed(fl) == "Ok"

\* The Result handle_deploy returns after the summary.
DeployResult(fl) ==
  IF fl # << >> THEN "node(s) failed deployment" ELSE "Ok"

\* Single target: update the record with the pipeline's result, then `?`.
SingleFinish ==
  /\ pc = "single"
  /\ tpc[1] = "done"
  /\ \E apiOk \in BOOLEAN : UpdateDeploymentStatus(tres[1], apiOk)
  /\ result' = tres[1]
  /\ pc' = "returned"
  /\ UNCHANGED << inp, poolVars, toolVars, mode, targets, exit_code, connects >>
  /\ UNCHANGED << coordVars, targetVars >>
  /\ UNCHANGED << resolveVars, sessionVars, stepVars >>

\* Variant: the loop breaks at the first failed target.
RollingNextBreak(i, res) == IF res = "Err" THEN N + 1 ELSE i + 1

\* The index the rolling loop moves to after the target at index i.
RollingNext(i, res) == i + 1

\* End of one rolling iteration: a `continue` after a failed connect or
\* mkdir, or the match on execute_deployment's result.
RollingCollect ==
  /\ pc = "rolling"
  /\ cur \in 1..N
  /\ tpc[cur] = "done"
  /\ LET r == RecordOutcome(success_count, failed, targets[cur], tres[cur])
     IN  /\ success_count' = r.success_count
         /\ failed' = r.failed
  /\ cur' = RollingNext(cur, tres[cur])
  /\ UNCHANGED << inp, poolVars, toolVars, mode, pc, targets >>
  /\ UNCHANGED << result, exit_code, connects >>
  /\ UNCHANGED << joined, targetVars, recordVars >>
  /\ UNCHANGED << resolveVars, sessionVars, stepVars >>

\* print_deploy_summary and the return that follows it.
Summary ==
  /\ \E apiOk \in BOOLEAN :
       UpdateDeploymentStatus(SummaryResult(failed), apiOk)
  /\ result' = DeployResult(failed)
  /\ pc' = "returned"
  /\ UNCHANGED << inp, poolVars, toolVars, mode, targets, exit_code, connects >>
  /\ UNCHANGED << coordVars, targetVars >>
  /\ UNCHANGED << resolveVars, sessionVars, stepVars >>

RollingSummary ==
  /\ pc = "rolling"
  /\ cur > N
  /\ Summary

\* `for t in targets { join_set.spawn(...) }`: one task per target.
Spawn ==
  /\ pc = "spawn"
  /\ tpc' = [t \in TIdx |-> IF t <= N THEN "connect" ELSE tpc[t]]
  /\ pc' = "join"
  /\ UNCHANGED << inp, poolVars, toolVars, mode,
                  targets, result, exit_code, connects >>
  /\ UNCHANGED << steps, tres, failAt, connFailed >>
  /\ UNCHANGED << hc_done, hc_failed, polls_max >>
  /\ UNCHANGED << coordVars, recordVars >>
  /\ UNCHANGED << resolveVars, sessionVars, stepVars >>

\* join_next() yields a finished task that was not yet taken.
JoinNext(t) ==
  /\ pc = "join"
  /\ t \in 1..N
  /\ t \notin joined
  /\ tpc[t] = "done"
  /\ joined' = joined \cup {t}
  /\ LET r == RecordOutcome(success_count, failed, targets[t], tres[t])
     IN  /\ success_count' = r.success_count
         /\ failed' = r.failed
  /\ UNCHANGED << inp, poolVars, toolVars, mode, pc, targets >>
  /\ UNCHANGED << result, exit_code, connects, cur >>
  /\ UNCHANGED << targetVars, recordVars >>
  /\ UNCHANGED << resolveVars, sessionVars, stepVars >>

\* Variant: the join loop ends after the first task it takes.
JoinSetEmptyEarly(j, n) == j # {}

\* join_next() yields None: the `while let` loop ends.
JoinSetEmpty(j, n) == j = 1..n

ParallelSummary ==
  /\ pc = "join"
  /\ JoinSetEmpty(joined, N)
  /\ Summary

\* ----- main (main.rs:569-574) -------------------------------------------

ExitCode(res) == IF res = "Ok" THEN 0 ELSE 1

\* Ok(()) at the end of handle_deploy's multi-target branches is already in
\* result; the fall-through of the single branch is Ok as well.
MainExit ==
  /\ pc = "returned"
  /\ exit_code' = ExitCode(result)
  /\ pc' = "exited"
  /\ UNCHANGED << inp, poolVars, toolVars, mode, targets, result, connects >>
  /\ UNCHANGED << coordVars, targetVars, recordVars >>
  /\ UNCHANGED << resolveVars, sessionVars, stepVars >>

Next ==
  \/ LoadOpsToml
  \/ ResolveTargets
  \/ AutoAllocateNode
  \/ ApplyFilters
  \/ PreConnect
  \/ PreMkdir
  \/ CheckContainers
  \/ SyncAppRecord
  \/ Spawn
  \/ \E t \in TIdx : TConnect(t)
  \/ \E t \in TIdx : TMkdir(t)
  \/ \E t \in TIdx : SyncEnvFiles(t)
  \/ \E t \in TIdx : SyncDirectories(t)
  \/ \E t \in TIdx : SyncCode(t)
  \/ \E t \in TIdx : BuildAndStart(t)
  \/ \E t \in TIdx : UploadCaddyRoutes(t)
  \/ \E t \in TIdx : HealthCheck(t)
  \/ \E t \in TIdx : PipelineReturn(t)
  \/ \E t \in TIdx : JoinNext(t)
  \/ SingleFinish
  \/ RollingCollect
  \/ RollingSummary
  \/ ParallelSummary
  \/ MainExit

Spec == Init /\ [][Next]_vars

\* The same program over the configurations of ConfigInputs.
SpecConfig == InitConfig /\ [][Next]_vars

\* ----- credential files and interrupts (ssh.rs:54-96) -------------------

\* The scope that owns session i has been left and the session dropped:
\* handle_deploy for the pre-flight session (index 0), the loop iteration
\* or the spawned task for the session of target i.
ScopeLeft(i) ==
  IF i = 0 THEN pc \in {"returned", "exited"} ELSE tpc[i] = "done"

\* The sessions whose key file is on disk: SshSession owns the
\* NamedTempFile that connect wrote, and the file is removed when the
\* session is dropped.
KeyFiles == {i \in 0..MaxTargets : sess[i] # 0 /\ ~ScopeLeft(i)}

\* SIGINT while `ops deploy` runs.  The deploy path installs no handler,
\* so the process ends there and then and nothing is dropped.
Sigint ==
  /\ pc \notin {"exited", "killed"}
  /\ pc' = "killed"
  /\ UNCHANGED << inp, poolVars, toolVars, mode, targets, result >>
  /\ UNCHANGED << exit_code, connects >>
  /\ UNCHANGED << coordVars, targetVars, recordVars >>
  /\ UNCHANGED << resolveVars, sessionVars, stepVars >>

\* The runs of a logged-in, non-interactive `ops deploy` without filters.
InitSigint ==
  /\ inp \in {i \in Inputs :
               /\ i.token /\ ~i.interactive /\ i.node_filter = 0
               /\ i.region_filter = "" /\ i.nchecks <= 1}
  /\ Start
  /\ NoPool
  /\ NoTools

NextSigint ==
  \/ Next
  \/ Sigint

\* A deploy that can be interrupted at any point.
SpecSigint == InitSigint /\ [][NextSigint]_vars

\* ----- pool commands (pool.rs) ------------------------------------------

\* DeployTarget.status as the control plane reports it.  handle_status
\* tells "healthy", "draining" and anything else apart (pool.rs:44-48);
\* "unhealthy" stands for the other values.
PoolStatuses == {"healthy", "draining", "unhealthy"}
EligibleStatuses == PoolStatuses \ {"draining"}

Members(p) == {p[i].node : i \in 1..Len(p)}

\* The status of node n in the target list p; "" when n is not in it.
StatusOf(p, n) ==
  IF n \in Members(p)
    THEN p[CHOOSE i \in 1..Len(p) : p[i].node = n].status
    ELSE ""

\* The control plane's handling of a drain / undrain request for a node of
\* the group: drain keeps the status the node had and sets "draining";
\* undrain of a draining node puts the kept status back.  Both leave the
\* list of bound nodes as it is.  A request that does not get through, or
\* names a node that is not bound, changes nothing and is answered with an
\* error.
ControlPlane(p, pr, req, up) ==
  LET n == req.node
      set(st) == [i \in 1..Len(p) |->
                    IF p[i].node = n THEN [p[i] EXCEPT !.status = st]
                    ELSE p[i]]
      at == (CHOOSE i \in 1..Len(p) : p[i].node = n)
  IN  IF ~up THEN [pool |-> p, prior |-> pr, res |-> "request failed"]
      ELSE IF n \notin Members(p)
        THEN [pool |-> p, prior |-> pr, res |-> "node is not in the group"]
      ELSE IF req.op = "drain" /\ p[at].status # "draining"
        THEN [pool |-> set("draining"),
              prior |-> [pr EXCEPT ![n] = p[at].status], res |-> "Ok"]
      ELSE IF req.op = "undrain" /\ p[at].status = "draining"
        THEN [pool |-> set(pr[n]),
              prior |-> [pr EXCEPT ![n] = ""], res |-> "Ok"]
      ELSE [pool |-> p, prior |-> pr, res |-> "Ok"]

\* What every pool command starts with (pool.rs:15-22, 88-94): the token,
\* parse_target, get_app_deploy_targets.  The error that ends the command
\* there, "" when none.
PoolPrelude(fault) ==
  CASE fault = "token" -> "Please run ops login first."
    [] fault = "target" -> "Target must be in app.project format"
    [] fault = "targets_api" -> "get_app_deploy_targets failed"
    [] OTHER -> ""

\* What can go wrong in one pool command: no token, a target that is not
\* app.project, a failed call of either endpoint; "" = nothing.
PoolFaults == {"", "token", "target", "targets_api", "request"}

\* One call of the control-plane client; strategy: the lb_strategy value it
\* carries, "" for a call without one.
Call(name, strategy) == [call |-> name, strategy |-> strategy]

\* The calls of the prelude: get_app_deploy_targets is reached once the
\* token is loaded and the target is parsed.
PreludeCalls(fault) ==
  IF fault \in {"token", "target"} THEN << >>
  ELSE << Call("get_app_deploy_targets", "") >>

\* Variant: a missing node group id is not looked at.
SingleNodeModeNever(g) == FALSE

\* resp.node_group_id is None: `.context("App is in single-node mode. ...")?`
\* ends the command.
SingleNodeMode(g) == ~g

\* Variant: every node that is not down counts as healthy.
HealthyCountLoose(ts) ==
  Cardinality({i \in 1..Len(ts) : ts[i].status # "unhealthy"})

\* resp.targets.iter().filter(|t| t.status == "healthy").count()
HealthyCount(ts) ==
  Cardinality({i \in 1..Len(ts) : ts[i].status = "healthy"})

\* handle_status's output for the target list ts: nothing but a notice for
\* an empty list, else one row per target and the healthy/total line.
StatusOutput(ts) ==
  IF ts = << >> THEN Output("status", 0, "Ok")
  ELSE [cmd |-> "status", node |-> 0, res |-> "Ok",
        rows |-> [i \in 1..Len(ts) |->
                   [node |-> ts[i].node, status |-> ts[i].status]],
        ratio |-> TRUE, healthy |-> HealthyCount(ts), total |-> Len(ts)]

\* ops pool status <app.project>
HandleStatus ==
  /\ \E fault \in PoolFaults \ {"request"} :
       LET err == PoolPrelude(fault)
       IN  /\ pool_out' = IF err # "" THEN Output("status", 0, err)
                           ELSE StatusOutput(pool)
           /\ pool_calls' = PreludeCalls(fault)
  /\ UNCHANGED << pool, prior, group,
                  pool_log, lb_strategy, deployVars, toolVars >>

\* api::drain_node(&token, group_id, node_id)
DrainRequest(node_id) == [op |-> "drain", node |-> node_id]

\* Variant: handle_undrain sends the drain request.
UndrainRequestCopied(node_id) == [op |-> "drain", node |-> node_id]

\* api::undrain_node(&token, group_id, node_id)
UndrainRequest(node_id) == [op |-> "undrain", node |-> node_id]

\* The log after command cmd for node n ended Ok; was: the node's status
\* before it.
Logged(lg, cmd, n, was) ==
  LET l == Append(lg, [cmd |-> cmd, node |-> n, was |-> was])
  IN  IF Len(l) > 2 THEN Tail(l) ELSE l

\* handle_drain and handle_undrain after the prelude: without a node group
\* the command ends with an error; else it sends its one request and
\* returns the control plane's answer.
DrainOrUndrain(cmd, node_id, req, fault) ==
  IF PoolPrelude(fault) # "" THEN
    /\ pool_out' = Output(cmd, node_id, PoolPrelude(fault))
    /\ pool_calls' = PreludeCalls(fault)
    /\ UNCHANGED << pool, prior, pool_log >>
  ELSE IF SingleNodeMode(group) THEN
    /\ pool_out' = Output(cmd, node_id, "App is in single-node mode.")
    /\ pool_calls' = PreludeCalls(fault)
    /\ UNCHANGED << pool, prior, pool_log >>
  ELSE
    LET r == ControlPlane(pool, prior, req, fault # "request")
    IN  /\ pool' = r.pool
        /\ prior' = r.prior
        /\ pool_out' = Output(cmd, node_id, r.res)
        /\ pool_calls' = Append(PreludeCalls(fault),
                                Call(req.op \o "_node", ""))
        /\ pool_log' = IF r.res = "Ok"
                         THEN Logged(pool_log, cmd, node_id,
                                     StatusOf(pool, node_id))
                         ELSE pool_log

\* ops pool drain <app.project> --node <id>
HandleDrain(node_id) ==
  /\ \E fault \in PoolFaults :
       DrainOrUndrain("drain", node_id, DrainRequest(node_id), fault)
  /\ UNCHANGED << group, lb_strategy, deployVars, toolVars >>

\* ops pool undrain <app.project> --node <id>
HandleUndrain(node_id) ==
  /\ \E fault \in PoolFaults :
       DrainOrUndrain("undrain", node_id, UndrainRequest(node_id), fault)
  /\ UNCHANGED << group, lb_strategy, deployVars, toolVars >>

\* let valid = ["round-robin", "geo", "weighted", "failover"];
Strategies == {"round-robin", "geo", "weighted", "failover"}

\* The values given on the command line as a strategy: the four names and
\* one that is none of them.
StrategyArgs == Strategies \cup {"random"}

\* valid.contains(&strategy.as_str())
ValidStrategy(strategy) == strategy \in Strategies

\* ops pool strategy <app.project> <strategy>: the token, the check of the
\* name, then the prelude's parse_target and get_app_deploy_targets, the
\* group id, and update_node_group_strategy.  The control plane stores the
\* value of a request that gets through.
HandleStrategy(strategy) ==
  /\ \E fault \in PoolFaults :
       IF fault = "token" THEN
         /\ pool_out' = Output("strategy", 0, PoolPrelude(fault))
         /\ pool_calls' = << >>
         /\ UNCHANGED lb_strategy
       ELSE IF ~ValidStrategy(strategy) THEN
         /\ pool_out' = Output("strategy", 0, "Invalid strategy")
         /\ pool_calls' = << >>
         /\ UNCHANGED lb_strategy
       ELSE IF PoolPrelude(fault) # "" THEN
         /\ pool_out' = Output("strategy", 0, PoolPrelude(fault))
         /\ pool_calls' = PreludeCalls(fault)
         /\ UNCHANGED lb_strategy
       ELSE IF SingleNodeMode(group) THEN
         /\ pool_out' = Output("strategy", 0, "App is in single-node mode.")
         /\ pool_calls' = PreludeCalls(fault)
         /\ UNCHANGED lb_strategy
       ELSE
         /\ pool_calls' = Append(PreludeCalls(fault),
                                 Call("update_node_group_strategy", strategy))
         /\ pool_out' = Output("strategy", 0,
                               IF fault = "request" THEN "request failed"
                               ELSE "Ok")
         /\ lb_strategy' = IF fault = "request" THEN lb_strategy
                           ELSE strategy
  /\ UNCHANGED << pool, prior, group, pool_log, deployVars, toolVars >>

\* ops node-group create <project> --env <env> [--strategy <strategy>]: the
\* token, then api::create_node_group with the strategy as it was given.
\* The control plane creates the group of a request that gets through.
HandleCreate(strategy) ==
  /\ \E fault \in {"", "token", "request"} :
       IF fault = "token" THEN
         /\ pool_out' = Output("create", 0, PoolPrelude(fault))
         /\ pool_calls' = << >>
         /\ UNCHANGED << group, lb_strategy >>
       ELSE
         /\ pool_calls' = << Call("create_node_group", strategy) >>
         /\ pool_out' = Output("create", 0,
                               IF fault = "request" THEN "request failed"
                               ELSE "Ok")
         /\ group' = (group \/ fault # "request")
         /\ lb_strategy' = IF fault = "request" THEN lb_strategy
                           ELSE strategy
  /\ UNCHANGED << pool, prior, pool_log, deployVars, toolVars >>

\* The app's targets at the control plane before the first pool command:
\* nodes 1..n, none of them draining; two or more nodes make a group.
InitPool ==
  /\ inp \in {i \in Inputs :
               /\ i.nbound = 0 /\ ~i.token /\ i.node_filter = 0
               /\ i.region_filter = "" /\ ~i.rolling /\ ~i.restart_only
               /\ ~i.interactive /\ i.nchecks = 0}
  /\ Start
  /\ \E n \in 0..MaxMembers :
       \E st \in [1..n -> EligibleStatuses] :
         pool = [i \in 1..n |-> [node |-> i, status |-> st[i]]]
  /\ group \in BOOLEAN
  /\ Len(pool) >= 2 => group
  /\ prior = [n \in 1..MaxMembers |-> ""]
  /\ pool_out = Output("none", 0, "none")
  /\ pool_log = << >>
  /\ lb_strategy = IF group THEN "round-robin" ELSE ""
  /\ pool_calls = << >>
  /\ NoTools

NextPool ==
  \/ HandleStatus
  \/ \E n \in 1..MaxMembers : HandleDrain(n)
  \/ \E n \in 1..MaxMembers : HandleUndrain(n)

\* Pool commands run one after the other against one app.
SpecPool == InitPool /\ [][NextPool]_vars

\* The commands that need or make a node group, on an app whose bound
\* nodes are all healthy at the start.
InitGroup ==
  /\ InitPool
  /\ \A i \in 1..Len(pool) : pool[i].status = "healthy"

NextGroup ==
  \/ \E n \in 1..MaxMembers : HandleDrain(n)
  \/ \E n \in 1..MaxMembers : HandleUndrain(n)
  \/ \E s \in StrategyArgs : HandleStrategy(s)
  \/ \E s \in StrategyArgs : HandleCreate(s)

SpecGroup == InitGroup /\ [][NextGroup]_vars

\* ----- tunnel (tunnel.rs) -----------------------------------------------

\* No deploy is run by another command.
NoDeploy ==
  /\ inp \in {i \in Inputs :
               /\ i.nbound = 0 /\ ~i.token /\ i.node_filter = 0
               /\ i.region_filter = "" /\ ~i.rolling /\ ~i.restart_only
               /\ ~i.interactive /\ i.nchecks = 0}
  /\ Start

\* handle_tunnel returns Err(e): temp_key_file is dropped on the way out.
TunnelFail(e) ==
  /\ tn_result' = e
  /\ tn_pc' = "returned"
  /\ temp_key_file' = FALSE

\* `let _ = api::delete_tunnel(&token, tunnel_id).await;`: the call is
\* made; ok: it got through.
DeleteTunnelCall(ok) ==
  /\ tn_calls' = tn_calls \cup {"delete_tunnel"}
  /\ tn_record' = (tn_record /\ ~ok)

\* Steps 1-2: the target is split at '.', the token is loaded.
TunnelParse ==
  /\ tn_pc = "parse"
  /\ \E parts \in 1..3, token \in BOOLEAN :
       IF parts # 2 THEN TunnelFail("Invalid target format")
       ELSE IF ~token THEN TunnelFail("Please run ops login first.")
       ELSE /\ tn_pc' = "register"
            /\ UNCHANGED << tn_result, temp_key_file >>
  /\ UNCHANGED << tunnel_id, tn_record, conf, ssh_child, child_lock,
                  wait_task, ctrl_c, tn_calls, protocol >>
  /\ UNCHANGED << deployVars, poolVars, buildVars, parseVars >>

\* Step 4: api::create_tunnel(..).await.context("Failed to register
\* tunnel")?
CreateTunnel ==
  /\ tn_pc = "register"
  /\ \E ok \in BOOLEAN :
       IF ok THEN /\ tunnel_id' = 1
                  /\ tn_record' = TRUE
                  /\ tn_pc' = "fetch_key"
                  /\ UNCHANGED << tn_result, temp_key_file >>
       ELSE /\ TunnelFail("Failed to register tunnel")
            /\ UNCHANGED << tunnel_id, tn_record >>
  /\ UNCHANGED << conf, ssh_child, child_lock, wait_task, ctrl_c,
                  tn_calls, protocol >>
  /\ UNCHANGED << deployVars, poolVars, buildVars, parseVars >>

\* Step 5: api::get_node_ci_key; its Err arm deletes the tunnel.
GetNodeCiKey ==
  /\ tn_pc = "fetch_key"
  /\ \E ok \in BOOLEAN :
       IF ok THEN /\ tn_pc' = "key_file"
                  /\ UNCHANGED << tn_result, temp_key_file, tn_calls,
                                  tn_record >>
       ELSE /\ \E del \in BOOLEAN : DeleteTunnelCall(del)
            /\ TunnelFail("Failed to fetch CI key for node")
  /\ UNCHANGED << tunnel_id, conf, ssh_child, child_lock, wait_task,
                  ctrl_c, protocol >>
  /\ UNCHANGED << deployVars, poolVars, buildVars, parseVars >>

\* tempfile::NamedTempFile::new()?, the key is written, mode 0600; each
\* `?` returns the error at once.
KeyFile ==
  /\ tn_pc = "key_file"
  /\ \E ok \in BOOLEAN :
       IF ok THEN /\ temp_key_file' = TRUE
                  /\ tn_pc' = "upload"
                  /\ UNCHANGED << tn_result, tn_calls, tn_record >>
       ELSE /\ TunnelFail("key file")
            /\ UNCHANGED << tn_calls, tn_record >>
  /\ UNCHANGED << tunnel_id, conf, ssh_child, child_lock, wait_task,
                  ctrl_c, protocol >>
  /\ UNCHANGED << deployVars, poolVars, buildVars, parseVars >>

\* How one `ssh` command can end: it ran and succeeded, it ran and its
\* status is not success, or it could not be spawned / waited for (`?`).
SshOutcomes == {"success", "failure", "io_error"}

\* Step 6, upload: `cat > /etc/nginx/sites-available/<conf>` over ssh.
UploadConf ==
  /\ tn_pc = "upload"
  /\ \E o \in SshOutcomes :
       CASE o = "success" ->
              /\ conf' = TRUE
              /\ tn_pc' = "enable"
              /\ UNCHANGED << tn_result, temp_key_file, tn_calls,
                              tn_record >>
         [] o = "failure" ->
              /\ \E del \in BOOLEAN : DeleteTunnelCall(del)
              /\ TunnelFail("Failed to upload nginx config")
              /\ UNCHANGED conf
         [] o = "io_error" ->
              /\ TunnelFail("io error")
              /\ UNCHANGED << conf, tn_calls, tn_record >>
  /\ UNCHANGED << tunnel_id, ssh_child, child_lock, wait_task, ctrl_c,
                  protocol >>
  /\ UNCHANGED << deployVars, poolVars, buildVars, parseVars >>

\* cleanup_nginx: `rm -f` of the conf and a reload over ssh; the caller
\* drops the Result.  ok: the command ran on the node.
CleanupNginxCall(ok) ==
  /\ tn_calls' = tn_calls \cup {"cleanup_nginx"}
  /\ conf' = (conf /\ ~ok)

\* Step 6, enable: `ln -sf ... && nginx -t && systemctl reload nginx`.
EnableConf ==
  /\ tn_pc = "enable"
  /\ \E o \in SshOutcomes :
       CASE o = "success" ->
              /\ tn_pc' = "certbot"
              /\ UNCHANGED << tn_result, temp_key_file, tn_calls,
                              tn_record, conf >>
         [] o = "failure" ->
              /\ \E ok \in BOOLEAN : conf' = (conf /\ ~ok)
              /\ \E del \in BOOLEAN : tn_record' = (tn_record /\ ~del)
              /\ tn_calls' = tn_calls \cup {"cleanup_nginx", "delete_tunnel"}
              /\ TunnelFail("Failed to enable nginx config")
         [] o = "io_error" ->
              /\ TunnelFail("io error")
              /\ UNCHANGED << conf, tn_calls, tn_record >>
  /\ UNCHANGED << tunnel_id, ssh_child, child_lock, wait_task, ctrl_c,
                  protocol >>
  /\ UNCHANGED << deployVars, poolVars, buildVars, parseVars >>

\* Step 6.5: certbot; any failure only downgrades the URL to http.
Certbot ==
  /\ tn_pc = "certbot"
  /\ \E o \in SshOutcomes :
       protocol' = IF o = "success" THEN "https" ELSE "http"
  /\ tn_pc' = "start_ssh"
  /\ UNCHANGED << tn_result, tunnel_id, tn_record, conf, temp_key_file,
                  ssh_child, child_lock, wait_task, ctrl_c, tn_calls >>
  /\ UNCHANGED << deployVars, poolVars, buildVars, parseVars >>

\* Step 7 and the entry of select!: `ssh -N -R` is spawned, put behind the
\* Mutex, and the spawn_blocking task is handed to the blocking pool.  A
\* failed spawn returns the error at once.
StartSsh ==
  /\ tn_pc = "start_ssh"
  /\ \E ok \in BOOLEAN :
       IF ok THEN /\ ssh_child' = "running"
                  /\ wait_task' = "spawned"
                  /\ tn_pc' = "select"
                  /\ UNCHANGED << tn_result, temp_key_file, tn_calls,
                                  tn_record, conf >>
       ELSE /\ TunnelFail("Failed to start SSH reverse tunnel")
            /\ UNCHANGED << ssh_child, wait_task, tn_calls, tn_record,
                            conf >>
  /\ UNCHANGED << tunnel_id, child_lock, ctrl_c, protocol >>
  /\ UNCHANGED << deployVars, poolVars, buildVars, parseVars >>

\* The blocking task: `child_for_wait.lock().unwrap()`.
WaitTaskLock ==
  /\ wait_task = "spawned"
  /\ child_lock = "free"
  /\ child_lock' = "wait_task"
  /\ wait_task' = "waiting"
  /\ UNCHANGED << tn_pc, tn_result, tunnel_id, tn_record, conf,
                  temp_key_file, ssh_child, ctrl_c, tn_calls, protocol >>
  /\ UNCHANGED << deployVars, poolVars, buildVars, parseVars >>

\* The blocking task: child.wait() returns once the process has ended; the
\* guard is dropped with the closure.
WaitTaskReturn ==
  /\ wait_task = "waiting"
  /\ ssh_child = "exited"
  /\ child_lock' = "free"
  /\ wait_task' = "done"
  /\ UNCHANGED << tn_pc, tn_result, tunnel_id, tn_record, conf,
                  temp_key_file, ssh_child, ctrl_c, tn_calls, protocol >>
  /\ UNCHANGED << deployVars, poolVars, buildVars, parseVars >>

\* The ssh process ends on its own account: the connection is lost, the
\* far side closes it, or the terminal sends it the interrupt as well.
SshExits ==
  /\ ssh_child = "running"
  /\ ssh_child' = "exited"
  /\ UNCHANGED << tn_pc, tn_result, tunnel_id, tn_record, conf,
                  temp_key_file, child_lock, wait_task, ctrl_c, tn_calls,
                  protocol >>
  /\ UNCHANGED << deployVars, poolVars, buildVars, parseVars >>

\* SIGINT is delivered to the process while select! is waiting.
Interrupt ==
  /\ tn_pc = "select"
  /\ ctrl_c = "none"
  /\ ctrl_c' = "pending"
  /\ UNCHANGED << tn_pc, tn_result, tunnel_id, tn_record, conf,
                  temp_key_file, ssh_child, child_lock, wait_task,
                  tn_calls, protocol >>
  /\ UNCHANGED << deployVars, poolVars, buildVars, parseVars >>

\* select! takes the ctrl_c branch.
SelectCtrlC ==
  /\ tn_pc = "select"
  /\ ctrl_c = "pending"
  /\ tn_pc' = "ctrl_c_lock"
  /\ UNCHANGED << tn_result, tunnel_id, tn_record, conf, temp_key_file,
                  ssh_child, child_lock, wait_task, ctrl_c, tn_calls,
                  protocol >>
  /\ UNCHANGED << deployVars, poolVars, buildVars, parseVars >>

\* `ssh_child.lock().unwrap()` returns only while nobody holds the Mutex.
LockFree(holder) == holder = "free"

\* The ctrl_c branch: lock, child.kill(), child.wait(); the guard is
\* dropped at the end of the branch.
CtrlCKill ==
  /\ tn_pc = "ctrl_c_lock"
  /\ LockFree(child_lock)
  /\ ssh_child' = "exited"
  /\ tn_pc' = "cleanup"
  /\ UNCHANGED << tn_result, tunnel_id, tn_record, conf, temp_key_file,
                  child_lock, wait_task, ctrl_c, tn_calls, protocol >>
  /\ UNCHANGED << deployVars, poolVars, buildVars, parseVars >>

\* select! takes the branch of the blocking task, which has finished.
SelectWaitDone ==
  /\ tn_pc = "select"
  /\ wait_task = "done"
  /\ tn_pc' = "cleanup"
  /\ UNCHANGED << tn_result, tunnel_id, tn_record, conf, temp_key_file,
                  ssh_child, child_lock, wait_task, ctrl_c, tn_calls,
                  protocol >>
  /\ UNCHANGED << deployVars, poolVars, buildVars, parseVars >>

\* Step 9: `let _ = cleanup_nginx(..)`.
CleanupNginx ==
  /\ tn_pc = "cleanup"
  /\ \E ok \in BOOLEAN : CleanupNginxCall(ok)
  /\ tn_pc' = "delete"
  /\ UNCHANGED << tn_result, tunnel_id, tn_record, temp_key_file,
                  ssh_child, child_lock, wait_task, ctrl_c, protocol >>
  /\ UNCHANGED << deployVars, poolVars, buildVars, parseVars >>

\* Step 9: `let _ = api::delete_tunnel(..)`, then Ok(()).
DeleteTunnel ==
  /\ tn_pc = "delete"
  /\ \E ok \in BOOLEAN : DeleteTunnelCall(ok)
  /\ tn_result' = "Ok"
  /\ tn_pc' = "returned"
  /\ temp_key_file' = FALSE
  /\ UNCHANGED << tunnel_id, conf, ssh_child, child_lock, wait_task,
                  ctrl_c, protocol >>
  /\ UNCHANGED << deployVars, poolVars, buildVars, parseVars >>

InitTunnel ==
  /\ NoDeploy
  /\ NoPool
  /\ TunnelStart
  /\ NoBuild
  /\ NoParse

\* What handle_tunnel and its blocking task do.
TunnelStep ==
  \/ TunnelParse
  \/ CreateTunnel
  \/ GetNodeCiKey
  \/ KeyFile
  \/ UploadConf
  \/ EnableConf
  \/ Certbot
  \/ StartSsh
  \/ WaitTaskLock
  \/ WaitTaskReturn
  \/ SelectCtrlC
  \/ CtrlCKill
  \/ SelectWaitDone
  \/ CleanupNginx
  \/ DeleteTunnel

NextTunnel ==
  \/ TunnelStep
  \/ SshExits
  \/ Interrupt

SpecTunnel == InitTunnel /\ [][NextTunnel]_vars

\* The runtime and the operating system keep running what can run; nothing
\* obliges the ssh process to end or an interrupt to arrive.
SpecTunnelLive == SpecTunnel /\ WF_vars(TunnelStep)

\* ----- image build (build.rs:213-373) -----------------------------------

\* The services to build (service_filter or image_config.services, as
\* their number), --jobs after `.max(1)`, and --no-push.
BuildInputs ==
  [nsvc : 0..MaxServices, jobs : 1..MaxJobs, no_push : BOOLEAN]

Min(a, b) == IF a < b THEN a ELSE b

\* Variant: a chunk takes one service more than jobs.
ChunkWide(i, jobs, n) == i..Min(i + jobs, n)

\* services.chunks(jobs): the chunk that starts at service i of n.
Chunk(i, jobs, n) == i..Min(i + jobs - 1, n)

\* build_and_push_images returns Err(e).
BuildFail(e) ==
  /\ b_result' = e
  /\ b_pc' = "returned"

\* Where the loops over the services go after service / chunk i: the body
\* for the next one, or past the loop.
AfterLoop(i, body, past) == IF i <= b_inp.nsvc THEN body ELSE past

\* resolve_env_value(&image_config.token)? and the docker login.
RegistryLogin ==
  /\ b_pc = "login"
  /\ \E ok \in BOOLEAN :
       IF ok THEN
         /\ b_pc' = IF b_inp.jobs <= 1
                      THEN AfterLoop(1, "seq_build", "prune")
                      ELSE AfterLoop(1, "batch",
                                     IF b_inp.no_push THEN "prune"
                                     ELSE "push")
         /\ UNCHANGED b_result
       ELSE BuildFail("Remote command failed")
  /\ UNCHANGED << b_inp, b_i, build, marker, marker_read, pushed, issued >>
  /\ UNCHANGED << deployVars, poolVars, tunnelVars, parseVars >>

\* jobs <= 1: `docker build` of service b_i through session.exec.
SeqBuild ==
  /\ b_pc = "seq_build"
  /\ issued' = Append(issued, {b_i})
  /\ \E ok \in BOOLEAN :
       IF ok THEN
         /\ build' = [build EXCEPT ![b_i] = "ok"]
         /\ IF b_inp.no_push
              THEN /\ b_i' = b_i + 1
                   /\ b_pc' = AfterLoop(b_i + 1, "seq_build", "prune")
              ELSE /\ b_pc' = "seq_push"
                   /\ UNCHANGED b_i
         /\ UNCHANGED b_result
       ELSE
         /\ build' = [build EXCEPT ![b_i] = "failed"]
         /\ BuildFail("Failed to build image")
         /\ UNCHANGED b_i
  /\ UNCHANGED << b_inp, marker, marker_read, pushed >>
  /\ UNCHANGED << deployVars, poolVars, tunnelVars, parseVars >>

\* jobs <= 1, `if !no_push`: `docker push` of service b_i.
SeqPush ==
  /\ b_pc = "seq_push"
  /\ \E ok \in BOOLEAN :
       IF ok THEN
         /\ pushed' = pushed \cup {b_i}
         /\ b_i' = b_i + 1
         /\ b_pc' = AfterLoop(b_i + 1, "seq_build", "prune")
         /\ UNCHANGED b_result
       ELSE
         /\ BuildFail("Failed to push image")
         /\ UNCHANGED << pushed, b_i >>
  /\ UNCHANGED << b_inp, build, marker, marker_read, issued >>
  /\ UNCHANGED << deployVars, poolVars, tunnelVars, parseVars >>

\* jobs > 1: the command of one chunk is sent; the remote shell puts every
\* build of the chunk in the background and then runs `wait`.
BatchExec ==
  /\ b_pc = "batch"
  /\ \E ok \in BOOLEAN :
       IF ok THEN
         LET batch == Chunk(b_i, b_inp.jobs, b_inp.nsvc)
         IN  /\ build' = [s \in SIdx |->
                            IF s \in batch THEN "running" ELSE build[s]]
             /\ issued' = Append(issued, batch)
             /\ b_pc' = "wait"
             /\ UNCHANGED b_result
       ELSE
         /\ BuildFail("Remote command failed")
         /\ UNCHANGED << build, issued >>
  /\ UNCHANGED << b_inp, b_i, marker, marker_read, pushed >>
  /\ UNCHANGED << deployVars, poolVars, tunnelVars, parseVars >>

\* On the node: `docker build ... ; echo $? > /tmp/ops_build_<svc>.exit`
\* of one background job ends.
BuildFinish(s) ==
  /\ build[s] = "running"
  /\ \E code \in {"0", "1"} :
       /\ build' = [build EXCEPT ![s] = IF code = "0" THEN "ok" ELSE "failed"]
       /\ marker' = [marker EXCEPT ![s] = code]
  /\ UNCHANGED << b_inp, b_pc, b_i, marker_read, pushed, issued, b_result >>
  /\ UNCHANGED << deployVars, poolVars, tunnelVars, parseVars >>

\* `wait` returns when no background job of the shell is left, and with it
\* session.exec.
WaitReturns ==
  /\ b_pc = "wait"
  /\ \A s \in Chunk(b_i, b_inp.jobs, b_inp.nsvc) : build[s] # "running"
  /\ b_pc' = "check"
  /\ UNCHANGED << b_inp, b_i, build, marker, marker_read, pushed, issued,
                  b_result >>
  /\ UNCHANGED << deployVars, poolVars, tunnelVars, parseVars >>

\* The ssh command ends with a failure status before `wait` has returned
\* (connection lost): `session.exec(&parallel_cmd, None)?`.
ExecLost ==
  /\ b_pc = "wait"
  /\ BuildFail("Remote command failed")
  /\ UNCHANGED << b_inp, b_i, build, marker, marker_read, pushed, issued >>
  /\ UNCHANGED << deployVars, poolVars, tunnelVars, parseVars >>

\* The exit check: the markers of the chunk are read; a marker other than
\* "0" puts its service in `failed`.
ExitCheck ==
  /\ b_pc = "check"
  /\ \E ok \in BOOLEAN :
       IF ok THEN
         LET batch == Chunk(b_i, b_inp.jobs, b_inp.nsvc)
             failed_svcs == {s \in batch : marker[s] # "0"}
         IN  /\ marker_read' = marker_read \cup batch
             /\ IF failed_svcs # {}
                  THEN /\ BuildFail("Build failed")
                       /\ UNCHANGED b_i
                  ELSE IF b_i + b_inp.jobs <= b_inp.nsvc
                    THEN /\ b_i' = b_i + b_inp.jobs
                         /\ b_pc' = "batch"
                         /\ UNCHANGED b_result
                  ELSE /\ b_i' = 1
                       /\ b_pc' = IF b_inp.no_push THEN "prune" ELSE "push"
                       /\ UNCHANGED b_result
       ELSE
         /\ BuildFail("Remote command failed")
         /\ UNCHANGED << b_i, marker_read >>
  /\ UNCHANGED << b_inp, build, marker, pushed, issued >>
  /\ UNCHANGED << deployVars, poolVars, tunnelVars, parseVars >>

\* jobs > 1, `if !no_push`: the pushes of one chunk and their check; ok:
\* the services of the chunk whose push went through.
PushBatch ==
  /\ b_pc = "push"
  /\ LET batch == Chunk(b_i, b_inp.jobs, b_inp.nsvc)
     IN  \E ok \in SUBSET batch :
           /\ pushed' = pushed \cup ok
           /\ IF ok # batch
                THEN /\ BuildFail("Push failed")
                     /\ UNCHANGED b_i
                ELSE /\ b_i' = b_i + b_inp.jobs
                     /\ b_pc' = AfterLoop(b_i + b_inp.jobs, "push", "prune")
                     /\ UNCHANGED b_result
  /\ UNCHANGED << b_inp, build, marker, marker_read, issued >>
  /\ UNCHANGED << deployVars, poolVars, tunnelVars, parseVars >>

\* `docker image prune -f` (its failure is dropped) and Ok(()).
Prune ==
  /\ b_pc = "prune"
  /\ b_result' = "Ok"
  /\ b_pc' = "returned"
  /\ UNCHANGED << b_inp, b_i, build, marker, marker_read, pushed, issued >>
  /\ UNCHANGED << deployVars, poolVars, tunnelVars, parseVars >>

InitBuild ==
  /\ NoDeploy
  /\ NoPool
  /\ TunnelStart
  /\ b_inp \in BuildInputs
  /\ BuildStart
  /\ NoParse

NextBuild ==
  \/ RegistryLogin
  \/ SeqBuild
  \/ SeqPush
  \/ BatchExec
  \/ \E s \in SIdx : BuildFinish(s)
  \/ WaitReturns
  \/ ExecLost
  \/ ExitCheck
  \/ PushBatch
  \/ Prune

SpecBuild == InitBuild /\ [][NextBuild]_vars

\* ----- target strings (utils.rs:57-82) -----------------------------------

\* The characters a target string is made of here: two digits, a letter,
\* the two separators, and the sign that u64's FromStr accepts in front.
Digits == {"0", "7"}
Chars == Digits \cup {"a", ".", ":", "+"}

DigitValue(c) == IF c = "7" THEN 7 ELSE 0

\* The strings of at most n characters.
Strings(n) == UNION {[1..k -> Chars] : k \in 0..n}

\* str::find: the index of the first c in s at or after i, 0 when none.
RECURSIVE Find(_, _, _)
Find(s, c, i) ==
  IF i > Len(s) THEN 0
  ELSE IF s[i] = c THEN i
  ELSE Find(s, c, i + 1)

\* Variant: the last ':' of the string.
ColonAtLast(s) ==
  IF \E i \in 1..Len(s) : s[i] = ":"
    THEN CHOOSE i \in 1..Len(s) :
           s[i] = ":" /\ \A j \in (i + 1)..Len(s) : s[j] # ":"
    ELSE 0

\* Where target_str.split_once(':') splits: at the first ':'.
ColonAt(s) == Find(s, ":", 1)

\* s.split('.'): the pieces between the dots, empty ones included.
RECURSIVE Split(_)
Split(s) ==
  LET d == Find(s, ".", 1)
  IN  IF d = 0 THEN << s >>
      ELSE << SubSeq(s, 1, d - 1) >> \o Split(SubSeq(s, d + 1, Len(s)))

\* The digits of s read as a decimal number, acc being the value so far.
RECURSIVE Decimal(_, _)
Decimal(s, acc) ==
  IF s = << >> THEN acc
  ELSE Decimal(Tail(s), acc * 10 + DigitValue(Head(s)))

\* server_part.parse::<u64>(): an optional '+', then one digit or more and
\* nothing else.
ParseU64(s) ==
  LET ds == IF s # << >> /\ Head(s) = "+" THEN Tail(s) ELSE s
  IN  IF ds # << >> /\ \A i \in 1..Len(ds) : ds[i] \in Digits
        THEN [ok |-> TRUE, id |-> Decimal(ds, 0)]
        ELSE [ok |-> FALSE, id |-> 0]

parse_target_v2(s) ==
  LET c == ColonAt(s)
      server_part == IF c = 0 THEN s ELSE SubSeq(s, 1, c - 1)
      path_part == IF c = 0 THEN None ELSE Some(SubSeq(s, c + 1, Len(s)))
      n == ParseU64(server_part)
      parts == Split(server_part)
  IN  IF n.ok
        THEN [NotParsed EXCEPT !.kind = "NodeId", !.id = n.id,
                               !.path = path_part]
      ELSE IF Len(parts) # 2
        THEN [NotParsed EXCEPT !.kind = "Err"]
      ELSE [NotParsed EXCEPT !.kind = "AppTarget", !.app = parts[1],
                             !.project = parts[2], !.path = path_part]

\* A caller hands its target string to parse_target_v2.
ParseTarget ==
  /\ parsed.kind = "none"
  /\ parsed' = parse_target_v2(target_str)
  /\ UNCHANGED << target_str, deployVars, poolVars, tunnelVars, buildVars >>

InitParse ==
  /\ NoDeploy
  /\ NoPool
  /\ TunnelStart
  /\ NoBuild
  /\ target_str \in Strings(MaxLen)
  /\ parsed = NotParsed

NextParse == ParseTarget

SpecParse == InitParse /\ [][NextParse]_vars

\* ======================= properties ======================================

Finished == pc \in {"returned", "exited"}

NonDecreasing(sq) ==
  \A i \in 1..Len(sq), j \in 1..Len(sq) : i < j => sq[i] <= sq[j]

\* A target's pipeline came to its end without an error in steps 1-5 and
\* with its session open.
ReachedEnd(t) == tpc[t] = "done" /\ failAt[t] = 0 /\ ~connFailed[t]

\* C1: in every mode the steps run on a target are in the order 1..6; once
\* one of steps 1-5 has failed it is the last step run on that target, and
\* the failure is the result (of the target's pipeline, or of the deploy
\* when it is the pre-flight on the first target that failed).
C1_StepOrder ==
  \A t \in TIdx :
    /\ NonDecreasing(steps[t])
    /\ failAt[t] # 0 =>
         /\ failAt[t] \in 1..5
         /\ steps[t] # << >>
         /\ steps[t][Len(steps[t])] = failAt[t]
         /\ \/ tres[t] = "Err"
            \/ mode = "none" /\ Finished /\ result \notin {"none", "Ok"}

\* C1 witness: a parallel task failed at the code sync after steps 1 and 2.
C1_Witness ==
  /\ mode = "parallel"
  /\ \E t \in 1..N :
       failAt[t] = 3 /\ steps[t] = << 1, 2, 2, 3 >> /\ tres[t] = "Err"

SomeSessionFailed == \E t \in 1..N : connFailed[t]

\* C4 (as claimed): in a multi-target deploy a target whose session fails
\* to open is recorded as failed, and every other target still has its
\* pipeline run and its outcome recorded, whichever target it is.
C4_SessionFailureIsolated ==
  (pc = "exited" /\ N > 1 /\ SomeSessionFailed) =>
    \A t \in 1..N :
      IF connFailed[t]
        THEN \E i \in 1..Len(failed) : failed[i] = targets[t]
        ELSE tpc[t] = "done" /\ tres[t] \in {"Ok", "Err"}

\* C5 (as claimed): the status sent to the control plane after a
\* multi-target deploy is success / partial / failed by the counts.
C5_AggregateStatusWritten ==
  (mode \in {"rolling", "parallel"} /\ updates # << >>) =>
    updates[Len(updates)] = AggregateStatus(success_count, failed)

\* C6: at most one status update is ever sent; it is sent only when no
\* target's pipeline is still running; a run that created the record has
\* sent exactly one by the time handle_deploy returns; the record leaves
\* "pending" only through that update.
C6_SingleUpdateAtEnd ==
  /\ Len(updates) <= 1
  /\ updates # << >> =>
       /\ deployment_id = "Some"
       /\ \A t \in 1..N : tpc[t] = "done"
  /\ (Finished /\ deployment_id = "Some") => Len(updates) = 1
  /\ record \notin {"none", "pending"} =>
       updates # << >> /\ record = updates[1]
  /\ deployment_id = "None" => record = "none"

\* C6 witness: a parallel deploy created the record and has sent its one
\* update after both tasks finished.
C6_Witness ==
  /\ mode = "parallel"
  /\ N = 2
  /\ deployment_id = "Some"
  /\ Len(updates) = 1
  /\ record = "failed"

\* C7: the exit code is non-zero when some target failed and 0 only when
\* there are targets and every one of them succeeded.
C7_ExitCode ==
  pc = "exited" =>
    /\ exit_code \in {0, 1}
    /\ (\E t \in 1..N : tres[t] = "Err" \/ failAt[t] # 0 \/ connFailed[t])
         => exit_code # 0
    /\ exit_code = 0 => N >= 1 /\ \A t \in 1..N : tres[t] = "Ok"

\* C7 witness: exit code 1 although one of the two targets succeeded.
C7_Witness ==
  /\ pc = "exited"
  /\ exit_code = 1
  /\ N = 2
  /\ \E t \in 1..N : tres[t] = "Ok"
  /\ \E t \in 1..N : tres[t] = "Err"

NotBoundErrors ==
  {"Node is not bound to this app", "No nodes in region bound to this app"}

\* The targets of the list that match --node and --region exactly.
Matching(ts, nf, rf) ==
  {i \in 1..Len(ts) : /\ nf # 0 => ts[i] = nf
                      /\ rf # "" => RegionOf(ts[i]) = rf}

\* C8: when the filters match none of the resolved targets the filtering
\* step returns one of the two explicit errors; such an error comes with no
\* session ever opened; and nothing after the filtering step, in particular
\* no connect, happens with an empty target list.
C8_State ==
  /\ result \in NotBoundErrors => connects = 0 /\ targets = << >> /\ Finished
  /\ connects > 0 => targets # << >>
  /\ pc \notin {"load", "resolve", "auto_allocate", "filter", "returned",
                "exited"}
       => targets # << >>
  /\ mode # "none" => targets # << >>

C8_Step ==
  (pc = "filter" /\ Matching(targets, inp.node_filter, inp.region_filter) = {})
    => (pc' = "returned" /\ result' \in NotBoundErrors /\ connects' = 0)

C8_EmptyFilterFails == [](C8_State) /\ [][C8_Step]_vars

\* C8 witness: the region filter matched none of two bound targets.
C8_Witness ==
  /\ inp.nbound = 2
  /\ inp.node_filter = 0
  /\ result = "No nodes in region bound to this app"
  /\ connects = 0
  /\ pc = "exited"

\* C9: in the rolling branch a target's iteration has started (its session
\* open was attempted) only when every earlier target's pipeline has
\* returned and was recorded, so at most one target is in progress.
Started(t) == tpc[t] \notin {"idle", "connect"} \/ tres[t] # "none"

C9_RollingSequential ==
  mode = "rolling" =>
    /\ \A t \in 1..N, u \in 1..N :
         (t < u /\ Started(u)) => (tpc[t] = "done" /\ t < cur)
    /\ Cardinality({t \in 1..N : Started(t) /\ tpc[t] # "done"}) <= 1

\* C9 witness: the second target is in the middle of its pipeline.
C9_Witness ==
  /\ mode = "rolling"
  /\ tpc[1] = "done"
  /\ tpc[2] = "build"

\* C10: a pipeline that reaches the health checks attempts every declared
\* check, failed ones included, and returns Ok whatever they report; no
\* check polls more than 10 times.
C10_HealthChecksInformational ==
  /\ polls_max <= HealthPolls
  /\ \A t \in TIdx :
       /\ hc_done[t] <= inp.nchecks
       /\ ReachedEnd(t) => hc_done[t] = inp.nchecks /\ tres[t] = "Ok"
       /\ tres[t] = "Err" => (failAt[t] # 0 \/ connFailed[t])

\* C10 witness: both declared checks were attempted, one failed after the
\* full 10 polls, and the pipeline returned Ok.
C10_Witness ==
  \E t \in 1..N :
    /\ inp.nchecks = 2
    /\ hc_done[t] = 2
    /\ hc_failed[t]
    /\ polls_max = HealthPolls
    /\ tres[t] = "Ok"

\* C11: every command run for a target, in the rolling loop and in the
\* parallel tasks under any interleaving, went through a session opened for
\* that target's node, and no session carried the commands of two targets.
C11_SessionPerTarget ==
  /\ \A t \in 1..N :
       \A i \in ran_on[t] : sess[i] # 0 /\ sess[i] = targets[t]
  /\ \A t \in 1..N, u \in 1..N : t # u => ran_on[t] \cap ran_on[u] = {}

\* C11 witness: two parallel tasks are both in the middle of their
\* pipelines, the first target on the pre-flight's and its task's session,
\* the second on its task's.
C11_Witness ==
  /\ mode = "parallel"
  /\ tpc[1] = "build"
  /\ tpc[2] = "code"
  /\ ran_on[1] = {0, 1}
  /\ ran_on[2] = {2}

\* The calls of sync_app_record did not create the Deployment record.
Untracked == inp.token /\ deployment_id = "None"

\* C12: tracking never decides the deploy.  Past sync_app_record, whether
\* or not the record was created and the update stored, every target's
\* pipeline is run to its outcome and handle_deploy's result and the exit
\* code are those of the pipelines alone.
C12_TrackingBestEffort ==
  (Finished /\ mode # "none") =>
    /\ \A t \in 1..N : tpc[t] = "done" /\ tres[t] \in {"Ok", "Err"}
    /\ result = "Ok" <=> \A t \in 1..N : tres[t] = "Ok"
    /\ pc = "exited" =>
         (exit_code = 0 <=> \A t \in 1..N : tres[t] = "Ok")

\* C12 witness: the record could not be created and the deploy of two
\* targets still ran all six steps on the second one and exited with 0.
C12_Witness ==
  /\ Untracked
  /\ N = 2
  /\ pc = "exited"
  /\ exit_code = 0
  /\ inp.nchecks = 1
  /\ steps[2] = << 1, 2, 2, 3, 4, 5, 6 >>

\* Step number k was run on a target with step log sq.
Has(sq, k) == \E i \in 1..Len(sq) : sq[i] = k

Count(sq, k) == Cardinality({i \in 1..Len(sq) : sq[i] = k})

\* C13 (as claimed): in a deploy that is not restart-only, a target on
\* which the sync steps ran has had its deploy path ensured and the
\* container decision of check_containers applied to it, in the rolling
\* and the parallel branch as in the single one.
C13_PreflightOnEveryTarget ==
  \A t \in 1..N :
    (~inp.restart_only /\ Has(steps[t], 2)) =>
      Has(steps[t], 1) /\ checked[t]

\* C14: in a restart-only deploy no target gets a code sync, an image pull
\* or a routing update; build_and_start issues "docker compose restart" and
\* nothing else, whatever the source; and it comes after both sync calls
\* of step 2, so a pipeline that reached its end ran steps 1, 2 and 4.
C14_RestartOnly ==
  inp.restart_only =>
    \A t \in TIdx :
      /\ ~Has(steps[t], 3)
      /\ ~Has(steps[t], 5)
      /\ ~route_execs[t]
      /\ cmd4[t] \in {"none", "restart"}
      /\ Has(steps[t], 4) => cmd4[t] = "restart" /\ Count(steps[t], 2) = 2
      /\ ReachedEnd(t) => Has(steps[t], 1) /\ Has(steps[t], 4)

\* C14 witness: a restart-only rolling deploy of an image-source app
\* restarted the services of both targets.
C14_Witness ==
  /\ inp.restart_only
  /\ inp.source = "image"
  /\ mode = "rolling"
  /\ Finished
  /\ \A t \in 1..2 : tres[t] = "Ok" /\ cmd4[t] = "restart"
  /\ steps[2] = << 1, 2, 2, 4 >>

\* C15 (as claimed): with no route declared the routing step does nothing
\* on the target and is never the step that fails.
C15_NoRoutesSkipsRouting ==
  ~inp.routes =>
    \A t \in TIdx : ~route_execs[t] /\ ~Has(steps[t], 5) /\ failAt[t] # 5

\* Errors of a resolution that ends without targets.
ResolutionErrors ==
  {"Please run ops login first.", "Failed to get deploy targets",
   "No nodes bound."}

ConfigInvalid == ~inp.parse_ok \/ SourceError(inp.source, inp.git_section)

\* C17 (as claimed): with an invalid ops.toml no target query is sent, no
\* session is opened, no remote command is run, and the deploy fails.
C17_InvalidConfigFatalEarly ==
  ConfigInvalid =>
    /\ cp_queries = 0
    /\ connects = 0
    /\ \A t \in TIdx : steps[t] = << >>
    /\ Finished => result \notin {"none", "Ok"}

\* C18 (as claimed): with a target pinned in ops.toml the control plane is
\* not asked for the bound targets and the deploy has exactly one target.
C18_PinnedTargetFirst ==
  inp.pinned =>
    /\ cp_queries = 0
    /\ pc \notin {"load", "resolve", "returned", "exited"} => N = 1

\* The last drain / undrain command that ended Ok.
LastApplied == pool_log[Len(pool_log)]

\* C19: when `pool status` follows a `pool drain` that ended Ok on a node
\* that was healthy (no other drain or undrain ended Ok in between), its
\* table has a row for that node with status "draining", it has one row
\* per bound node, and the healthy number is the count of the other rows
\* whose status is exactly "healthy".
C19_DrainShownInStatus ==
  ( /\ pool_out.cmd = "status"
    /\ pool_out.res = "Ok"
    /\ pool_log # << >>
    /\ LastApplied.cmd = "drain"
    /\ LastApplied.was = "healthy" ) =>
    LET n == LastApplied.node
        rows == pool_out.rows
    IN  /\ pool_out.ratio
        /\ \E i \in 1..Len(rows) :
             rows[i] = [node |-> n, status |-> "draining"]
        /\ {rows[i].node : i \in 1..Len(rows)} = Members(pool)
        /\ pool_out.total = Len(rows)
        /\ pool_out.healthy =
             Cardinality({i \in 1..Len(rows) :
                            rows[i].status = "healthy" /\ rows[i].node # n})

\* C19 witness: node 1 of two healthy nodes was drained; the status
\* command then printed 1/2.
C19_Witness ==
  /\ pool_out.cmd = "status"
  /\ pool_out.res = "Ok"
  /\ pool_log # << >>
  /\ LastApplied = [cmd |-> "drain", node |-> 1, was |-> "healthy"]
  /\ pool_out.healthy = 1
  /\ pool_out.total = 2

\* C20: a node that was drained and then undrained, with no other drain or
\* undrain in between, has the status it had before the drain; and no
\* step of a drain or undrain command changes which nodes are bound, their
\* order, or the group.
C20_State ==
  ( /\ Len(pool_log) = 2
    /\ pool_log[1].cmd = "drain"
    /\ pool_log[2].cmd = "undrain"
    /\ pool_log[1].node = pool_log[2].node
    /\ pool_log[1].was # "draining" ) =>
    StatusOf(pool, pool_log[1].node) = pool_log[1].was

C20_Step ==
  /\ [i \in 1..Len(pool') |-> pool'[i].node] =
       [i \in 1..Len(pool) |-> pool[i].node]
  /\ group' = group

C20_DrainUndrainRestores == [](C20_State) /\ [][C20_Step]_vars

\* C20 witness: an unhealthy node was drained, then undrained, and is
\* unhealthy again.
C20_Witness ==
  /\ pool_log = << [cmd |-> "drain", node |-> 2, was |-> "unhealthy"],
                   [cmd |-> "undrain", node |-> 2, was |-> "draining"] >>
  /\ StatusOf(pool, 2) = "unhealthy"
  /\ pool_out = Output("undrain", 2, "Ok")

\* The strategy values the last command sent to the control plane.
SentStrategies ==
  {pool_calls[i].strategy : i \in 1..Len(pool_calls)} \ {""}

\* C21: every strategy value the CLI sends to the control plane, when the
\* strategy of a pool is changed or a node group is created, is one of
\* round-robin, geo, weighted, failover.
C21_StrategyClosedEnum == SentStrategies \subseteq Strategies

\* The calls that change nothing at the control plane.
ReadCalls == {"get_app_deploy_targets"}

\* C30: `pool strategy`, `pool drain` and `pool undrain` on an app without a
\* node group end with an error and make no call that changes anything at
\* the control plane; `pool strategy` with a name that is none of the four
\* ends with an error and makes no call at all.
C30_State ==
  ( /\ pool_out.cmd \in {"strategy", "drain", "undrain"}
    /\ ~group ) =>
    /\ pool_out.res # "Ok"
    /\ \A i \in 1..Len(pool_calls) : pool_calls[i].call \in ReadCalls

C30_Step ==
  \A s \in StrategyArgs \ Strategies :
    HandleStrategy(s) => pool_out'.res # "Ok" /\ pool_calls' = << >>

C30_SingleNodeNoMutation == [](C30_State) /\ [][C30_Step]_vars

\* C30 witness: `pool strategy` with a valid name on an app in single-node
\* mode asked for the targets and stopped there.
C30_Witness ==
  /\ pool_out = Output("strategy", 0, "App is in single-node mode.")
  /\ ~group
  /\ pool_calls = << Call("get_app_deploy_targets", "") >>

\* The teardown of a tunnel: the ssh process has ended, and the removal of
\* the nginx conf and the deletion of the tunnel record have been issued.
TornDown ==
  /\ ssh_child = "exited"
  /\ {"cleanup_nginx", "delete_tunnel"} \subseteq tn_calls

\* C22: while the reverse tunnel is open, an interrupt always leads to the
\* teardown: the ssh process is ended, the nginx conf is removed and the
\* tunnel record is deleted, in whatever state the task waiting on the ssh
\* process is.
C22_InterruptLeadsToTeardown ==
  (tn_pc = "select" /\ ctrl_c = "pending") ~> TornDown

\* C27: once the tunnel is registered, handle_tunnel does not return
\* without having issued the deletion of the tunnel record, and the removal
\* of the nginx conf if that was uploaded and is still in place.
C27_RegisteredTunnelDeleted ==
  (tn_pc = "returned" /\ tunnel_id # 0) =>
    /\ "delete_tunnel" \in tn_calls
    /\ conf => "cleanup_nginx" \in tn_calls

\* C23: the key file of a session exists only while the session does: when
\* the deploy has ended, by full success, a failed target, a fatal error or
\* an interrupt, no key file is left on disk.
C23_KeyFileDeletedOnExit ==
  pc \in {"returned", "exited", "killed"} => KeyFiles = {}

\* The services of the build commands issued before the k-th.
IssuedBefore(k) == UNION {issued[j] : j \in 1..(k - 1)}

\* C24: with jobs > 1 the builds are issued in consecutive chunks of at
\* most jobs services, and a chunk is not issued before every build of the
\* chunks before it has ended and the exit check has read its marker.
C24_BatchBarrier ==
  b_inp.jobs > 1 =>
    \A k \in 1..Len(issued) :
      /\ issued[k] # {}
      /\ Cardinality(issued[k]) <= b_inp.jobs
      /\ issued[k] =
           (Cardinality(IssuedBefore(k)) + 1) ..
           (Cardinality(IssuedBefore(k)) + Cardinality(issued[k]))
      /\ \A s \in IssuedBefore(k) :
           /\ build[s] \in {"ok", "failed"}
           /\ s \in marker_read

\* C24 witness: with three services and jobs = 2 the builds of services 1
\* and 2 ran side by side, and service 3 is being built after both markers
\* were read.
C24_Witness ==
  /\ b_inp.jobs = 2
  /\ issued = << {1, 2}, {3} >>
  /\ build[3] = "running"
  /\ {1, 2} \subseteq marker_read

\* C26: an image is pushed only when every requested service was built
\* successfully, and after a failed build no further build command is
\* issued; with and without batches.
C26_PushOnlyAfterAllBuilt ==
  /\ pushed # {} => \A s \in 1..b_inp.nsvc : build[s] = "ok"
  /\ \A k \in 1..Len(issued) :
       \A s \in IssuedBefore(k) : build[s] # "failed"

\* The positions of character c in s.
Positions(s, c) == {i \in 1..Len(s) : s[i] = c}

\* The smallest element of a non-empty set of numbers.
Least(S) == CHOOSE i \in S : \A j \in S : i <= j

\* The number that the digit string ds writes.
PlaceValue(ds) ==
  LET RECURSIVE Sum(_)
      Sum(k) == IF k = 0 THEN 0
                ELSE Sum(k - 1)
                       + DigitValue(ds[k]) * 10 ^ (Len(ds) - k)
  IN  Sum(Len(ds))

\* C25: parse_target_v2 cuts the string at its first ':'.  What stands
\* before it gives NodeId with its value when it is an unsigned integer,
\* else AppTarget with the two pieces when it has exactly one dot, else an
\* error.  The path is absent without a ':' and is the text after the
\* first ':' otherwise.
C25_ParseTargetV2 ==
  parsed.kind # "none" =>
    LET colons == Positions(target_str, ":")
        first == IF colons = {} THEN Len(target_str) + 1 ELSE Least(colons)
        server == SubSeq(target_str, 1, first - 1)
        path == IF colons = {} THEN None
                ELSE Some(SubSeq(target_str, first + 1, Len(target_str)))
        digits == IF server # << >> /\ server[1] = "+"
                    THEN SubSeq(server, 2, Len(server)) ELSE server
        unsigned == /\ Len(digits) >= 1
                    /\ \A i \in 1..Len(digits) : digits[i] \in Digits
        dots == Positions(server, ".")
    IN  IF unsigned THEN
          /\ parsed.kind = "NodeId"
          /\ parsed.id = PlaceValue(digits)
          /\ parsed.path = path
        ELSE IF Cardinality(dots) = 1 THEN
          /\ parsed.kind = "AppTarget"
          /\ parsed.app = SubSeq(server, 1, Least(dots) - 1)
          /\ parsed.project = SubSeq(server, Least(dots) + 1, Len(server))
          /\ parsed.path = path
        ELSE parsed.kind = "Err"

\* C25 witness: "7::a" is node 7 with the path ":a".
C25_Witness ==
  /\ target_str = << "7", ":", ":", "a" >>
  /\ parsed.kind = "NodeId"
  /\ parsed.id = 7
  /\ parsed.path = Some(<< ":", "a" >>)

\* C28: the list that resolve_targets or auto_allocate_node hands to the
\* filters has a target, and so has the list that is left when
\* handle_deploy opens its first session: that session is opened for its
\* first target.
C28_FirstSessionHasTarget ==
  /\ pc \in {"filter", "connect"} => N >= 1
  /\ sess[0] # 0 => N >= 1 /\ sess[0] = targets[1]

\* C28 witness: no node was bound, auto_allocate_node bound one, and the
\* first session is open for it.
C28_Witness ==
  /\ inp.nbound = 0
  /\ binds = 1
  /\ N = 1
  /\ sess[0] = targets[1]

\* The errors that the pre-flight on the first target ends with.
PreflightErrors ==
  {"connect failed", "Remote command failed", "Deployment aborted by user"}

\* C29: when the pre-flight on the first target fails or is aborted, the
\* deploy ends there: no Deployment record was created, no status was
\* sent, and no target saw a step after the pre-flight.
C29_PreflightFailureStops ==
  result \in PreflightErrors =>
    /\ Finished
    /\ mode = "none"
    /\ deployment_id = "None"
    /\ record = "none"
    /\ updates = << >>
    /\ \A t \in TIdx :
         /\ tpc[t] = "idle"
         /\ \A i \in 1..Len(steps[t]) : steps[t][i] = 1
         /\ ran_on[t] \subseteq {0}
         /\ cmd4[t] = "none"
         /\ ~route_execs[t]
         /\ sess[t] = 0

\* C29 witness: with two targets the user chose Abort; nothing was tracked
\* and the process has ended.
C29_Witness ==
  /\ result = "Deployment aborted by user"
  /\ N = 2
  /\ checked[1]
  /\ deployment_id = "None"
  /\ pc = "exited"

====
